---- MODULE Spec2Model ----
(***************************************************************************)
(* A model of the MCP infrastructure manager (ReginRavi/mcp-aws-1):        *)
(*   - NaturalLanguageParser.parse_command (src/mcp_client1.py), the       *)
(*     intent resolver, computed on real strings, regular expression by    *)
(*     regular expression;                                                 *)
(*   - the FastAPI handlers of src/mcp_fastapi_server.py and the external   *)
(*     terraform processes they launch (run_terraform_commands,            *)
(*     delete_resource, get_terraform_state).                               *)
(* Texts are TLA+ strings; Len, SubSeq and \o act on them as on sequences. *)
(***************************************************************************)
EXTENDS Integers, Sequences, FiniteSets, TLC

VARIABLES
    (* ---- client side: the intent resolver ---- *)
    command,      \* the text handed to parse_command, as the caller wrote it
    hashseed,     \* the string-hash key of the running interpreter process
    parsed,       \* parse_command has returned in this process run
    intent,       \* what parse_command returned in this process run
    earlier,      \* what it returned for the same text in an earlier process run
    (* ---- the configuration composer, called on its own ---- *)
    composer_call, \* the generate_*_tf call: which method, with which arguments
    composed,     \* <<the text of main.tf>> as last written, <<>> before the call
    removals,     \* the removeResourceBlock calls made on that file, in order
    (* ---- client side: batch_mode over a file of commands ---- *)
    batch_file,   \* the lines of the commands file, as readlines() returns them
    batch_pos,    \* the index of the line the loop is at
    executed,     \* the commands executed so far, each with its result
    (* ---- server side: one request at a time on the event loop ---- *)
    tf_dirs,      \* the configuration directories that exist under terraform/
    files,        \* the text of each file under them, None for a file that is not there
    overwritten,  \* the last generate_*_tf call found main.tf there and truncated it
    request,      \* the request being handled (or the last one handled)
    pc,           \* "idle", or the stage whose process the handler waits for
    procs,        \* the external processes launched for this request, in launch order
    init_result,  \* CompletedProcess of terraform init, or NoResult
    plan_result,  \* CompletedProcess of terraform plan, or NoResult
    apply_result, \* CompletedProcess of terraform apply, or NoResult
    show_result,  \* CompletedProcess of terraform show, or NoResult
    outcome,      \* what run_terraform_commands returned, or NoResult
    response      \* what the caller of the endpoint received, or NoResult

parser_vars == <<command, hashseed, parsed, intent, earlier>>
composer_vars == <<composer_call, composed, removals>>
batch_vars == <<batch_file, batch_pos, executed>>
client_vars == <<parser_vars, composer_vars, batch_vars>>
fs_vars == <<tf_dirs, files, overwritten>>
server_vars == <<tf_dirs, files, overwritten, request, pc, procs, init_result, plan_result,
                 apply_result, show_result, outcome, response>>
vars == <<parser_vars, composer_vars, batch_vars, server_vars>>

(***************************************************************************)
(* Bounds of the model.                                                    *)
(***************************************************************************)
MaxWords == 3

(***************************************************************************)
(* Characters and character classes (ASCII), as Python's re sees them.     *)
(***************************************************************************)
LowerLetters == {"a","b","c","d","e","f","g","h","i","j","k","l","m",
                 "n","o","p","q","r","s","t","u","v","w","x","y","z"}
UpperLetters == {"A","B","C","D","E","F","G","H","I","J","K","L","M",
                 "N","O","P","Q","R","S","T","U","V","W","X","Y","Z"}
Digits == {"0","1","2","3","4","5","6","7","8","9"}
Whitespace == {" ", "\t", "\n", "\r"}
Quotes == {"\"", "'"}
\* \w after lower(): letters, digits, underscore
WordChars == LowerLetters \cup UpperLetters \cup Digits \cup {"_"}

\* s[i-1] in Python; "" outside the text
Ch(s, i) == IF i >= 1 /\ i <= Len(s) THEN SubSeq(s, i, i) ELSE ""

\* str.lower() on one ASCII character
LowerCh(c) ==
    IF c \notin UpperLetters THEN c ELSE
    CASE c = "A" -> "a" [] c = "B" -> "b" [] c = "C" -> "c" [] c = "D" -> "d"
      [] c = "E" -> "e" [] c = "F" -> "f" [] c = "G" -> "g" [] c = "H" -> "h"
      [] c = "I" -> "i" [] c = "J" -> "j" [] c = "K" -> "k" [] c = "L" -> "l"
      [] c = "M" -> "m" [] c = "N" -> "n" [] c = "O" -> "o" [] c = "P" -> "p"
      [] c = "Q" -> "q" [] c = "R" -> "r" [] c = "S" -> "s" [] c = "T" -> "t"
      [] c = "U" -> "u" [] c = "V" -> "v" [] c = "W" -> "w" [] c = "X" -> "x"
      [] c = "Y" -> "y" [] c = "Z" -> "z" [] OTHER -> c

\* str.lower(), character by character (halving keeps the evaluation shallow)
RECURSIVE Lower(_)
Lower(s) ==
    IF Len(s) <= 1 THEN LowerCh(s)
    ELSE LET h == Len(s) \div 2
         IN  Lower(SubSeq(s, 1, h)) \o Lower(SubSeq(s, h + 1, Len(s)))

\* str.strip(): leading and trailing whitespace removed
Strip(s) ==
    IF \A i \in 1..Len(s) : Ch(s, i) \in Whitespace THEN ""
    ELSE LET a == CHOOSE i \in 1..Len(s) :
                      /\ Ch(s, i) \notin Whitespace
                      /\ \A k \in 1..(i-1) : Ch(s, k) \in Whitespace
             b == CHOOSE i \in 1..Len(s) :
                      /\ Ch(s, i) \notin Whitespace
                      /\ \A k \in (i+1)..Len(s) : Ch(s, k) \in Whitespace
         IN  SubSeq(s, a, b)

(***************************************************************************)
(* Regular-expression building blocks.                                     *)
(***************************************************************************)
IsWordAt(s, i) == i >= 1 /\ i <= Len(s) /\ Ch(s, i) \in WordChars

\* \b between position i-1 and position i (i in 1..Len(s)+1)
AtWB(s, i) == IsWordAt(s, i - 1) # IsWordAt(s, i)

\* the literal lit occurs in s starting at position i
LitAt(s, i, lit) ==
    /\ i >= 1
    /\ i + Len(lit) - 1 <= Len(s)
    /\ SubSeq(s, i, i + Len(lit) - 1) = lit

\* "." does not match a newline: s[a..b] is something ".*" can cover
DotStar(s, a, b) == \A k \in a..b : Ch(s, k) # "\n"

\* 'lit in s'
Contains(s, lit) == \E i \in 1..Len(s) : LitAt(s, i, lit)

\* the last position of the longest run of characters of class cls that
\* starts at position i (i-1 when the run is empty)
RunEnd(s, i, cls) ==
    CHOOSE j \in (i-1)..Len(s) :
        /\ \A k \in i..j : Ch(s, k) \in cls
        /\ (j = Len(s) \/ Ch(s, j + 1) \notin cls)

\* re.search(r'\b(v1|v2|..)\b', s): some alternative stands as a whole word
SearchWord(s, alts) ==
    \E i \in 1..Len(s) : \E v \in alts :
        AtWB(s, i) /\ LitAt(s, i, v) /\ AtWB(s, i + Len(v))

\* re.search(r'\b(v1|v2|..).*tail\b', s)
SearchVerbTail(s, verbs, tail) ==
    \E i \in 1..Len(s) : \E v \in verbs :
        /\ AtWB(s, i) /\ LitAt(s, i, v)
        /\ \E k \in (i + Len(v))..Len(s) :
              /\ LitAt(s, k, tail) /\ AtWB(s, k + Len(tail))
              /\ DotStar(s, i + Len(v), k - 1)

\* re.search(r'\b(v1|v2|..).*mid.*tail\b', s)
SearchVerbMidTail(s, verbs, mid, tail) ==
    \E i \in 1..Len(s) : \E v \in verbs :
        /\ AtWB(s, i) /\ LitAt(s, i, v)
        /\ \E j \in (i + Len(v))..Len(s) :
              /\ LitAt(s, j, mid)
              /\ DotStar(s, i + Len(v), j - 1)
              /\ \E k \in (j + Len(mid))..Len(s) :
                    /\ LitAt(s, k, tail) /\ AtWB(s, k + Len(tail))
                    /\ DotStar(s, j + Len(mid), k - 1)

\* the smallest member of a set of positions, 0 when it is empty: re.search
\* reports the leftmost match
LeftMost(S) == IF S = {} THEN 0 ELSE CHOOSE i \in S : \A k \in S : i <= k

\* the largest member of a set of positions, 0 when it is empty: a greedy
\* quantifier gives back one character at a time
RightMost(S) == IF S = {} THEN 0 ELSE CHOOSE i \in S : \A k \in S : i >= k

\* group(1) of a search that found nothing is never read: the callers test
\* the match first.  A capture group here is never empty, so "" is no match.
NoMatch == ""

\* re.search(r'\b(v1|v2|..)\b', s).group(1)
FindWord(s, alts) ==
    LET M(i) == \E v \in alts : AtWB(s, i) /\ LitAt(s, i, v) /\ AtWB(s, i + Len(v))
        i0 == LeftMost({i \in 1..Len(s) : M(i)})
    IN  IF i0 = 0 THEN NoMatch
        ELSE CHOOSE v \in alts : LitAt(s, i0, v) /\ AtWB(s, i0 + Len(v))

\* re.search(r'\b(t[0-9]\.[a-z]+)\b', s).group(1)
InstanceTypeEnd(s, i) ==
    IF /\ AtWB(s, i) /\ Ch(s, i) = "t" /\ Ch(s, i + 1) \in Digits /\ Ch(s, i + 2) = "."
    THEN LET e == RunEnd(s, i + 3, LowerLetters)
         IN  IF e >= i + 3 /\ AtWB(s, e + 1) THEN e ELSE 0
    ELSE 0

FindInstanceType(s) ==
    LET i0 == LeftMost({i \in 1..Len(s) : InstanceTypeEnd(s, i) # 0})
    IN  IF i0 = 0 THEN NoMatch ELSE SubSeq(s, i0, InstanceTypeEnd(s, i0))

RegionPrefixes == {"us-", "eu-", "ap-"}

\* re.search(r'\b(us-[a-z]+-[0-9]|eu-[a-z]+-[0-9]|ap-[a-z]+-[0-9])\b', s).group(1)
RegionEnd(s, i) ==
    IF AtWB(s, i) /\ \E p \in RegionPrefixes : LitAt(s, i, p)
    THEN LET e == RunEnd(s, i + 3, LowerLetters)
         IN  IF /\ e >= i + 3 /\ Ch(s, e + 1) = "-" /\ Ch(s, e + 2) \in Digits
                /\ AtWB(s, e + 3)
             THEN e + 2 ELSE 0
    ELSE 0

FindRegion(s) ==
    LET i0 == LeftMost({i \in 1..Len(s) : RegionEnd(s, i) # 0})
    IN  IF i0 = 0 THEN NoMatch ELSE SubSeq(s, i0, RegionEnd(s, i0))

\* The tail  \s+["\']?([cls]+)["\']?\b  tried at position p (just after the
\* keyword): <<first, last>> of the group, <<0, 0>> when it does not match.
\* \s+, the opening quote and the class are disjoint, so only the group's
\* length is left to backtracking: the longest prefix of the run that is
\* followed by a word boundary, or (the whole run) by a quote and a boundary.
NamedTail(s, p, cls) ==
    LET w == RunEnd(s, p, Whitespace)
        g == IF Ch(s, w + 1) \in Quotes THEN w + 2 ELSE w + 1
        E == RunEnd(s, g, cls)
        ok(e) == \/ AtWB(s, e + 1)
                 \/ e = E /\ Ch(s, E + 1) \in Quotes /\ AtWB(s, E + 2)
        e0 == RightMost({e \in g..E : ok(e)})
    IN  IF w >= p /\ E >= g /\ e0 # 0 THEN <<g, e0>> ELSE <<0, 0>>

NameClass == LowerLetters \cup UpperLetters \cup Digits \cup {"-", "_"}
BucketClass == NameClass \cup {"."}

\* re.search(r'\bKEYWORD\s+["\']?([cls]+)["\']?\b', s).group(1)
FindAfterKeyword(s, kw, cls) ==
    LET M(i) == AtWB(s, i) /\ LitAt(s, i, kw)
                  /\ NamedTail(s, i + Len(kw), cls) # <<0, 0>>
        i0 == LeftMost({i \in 1..Len(s) : M(i)})
    IN  IF i0 = 0 THEN NoMatch
        ELSE LET t == NamedTail(s, i0 + Len(kw), cls) IN SubSeq(s, t[1], t[2])

\* re.search(r'\bname[d]?\s+["\']?([a-zA-Z0-9\-_]+)["\']?\b', s).group(1)
\* "d" is no whitespace, so name and named never both match at one place
FindName(s) ==
    LET T(i) == IF ~(AtWB(s, i) /\ LitAt(s, i, "name")) THEN <<0, 0>>
                ELSE IF Ch(s, i + 4) = "d" THEN NamedTail(s, i + 5, NameClass)
                ELSE NamedTail(s, i + 4, NameClass)
        i0 == LeftMost({i \in 1..Len(s) : T(i) # <<0, 0>>})
    IN  IF i0 = 0 THEN NoMatch ELSE SubSeq(s, T(i0)[1], T(i0)[2])

\* re.search(r'\b(db\.[a-z0-9\.]+)\b', s).group(1)
DbClassEnd(s, i) ==
    IF AtWB(s, i) /\ LitAt(s, i, "db.")
    THEN LET E == RunEnd(s, i + 3, LowerLetters \cup Digits \cup {"."})
         IN  RightMost({e \in (i + 3)..E : AtWB(s, e + 1)})
    ELSE 0

FindDbClass(s) ==
    LET i0 == LeftMost({i \in 1..Len(s) : DbClassEnd(s, i) # 0})
    IN  IF i0 = 0 THEN NoMatch ELSE SubSeq(s, i0, DbClassEnd(s, i0))

\* re.search(r'\b(i-[a-zA-Z0-9]+)\b', s).group(1)
InstanceIdEnd(s, i) ==
    IF AtWB(s, i) /\ LitAt(s, i, "i-")
    THEN LET E == RunEnd(s, i + 2, LowerLetters \cup UpperLetters \cup Digits)
         IN  RightMost({e \in (i + 2)..E : AtWB(s, e + 1)})
    ELSE 0

FindInstanceId(s) ==
    LET i0 == LeftMost({i \in 1..Len(s) : InstanceIdEnd(s, i) # 0})
    IN  IF i0 = 0 THEN NoMatch ELSE SubSeq(s, i0, InstanceIdEnd(s, i0))

(***************************************************************************)
(* hash(command): CPython keys its string hash with a per-process random   *)
(* seed (PYTHONHASHSEED unset), so the value is a function of the seed and  *)
(* of the text.  The model keeps exactly that dependence: a weighted sum   *)
(* of the character codes of the text, keyed by the seed.                  *)
(***************************************************************************)
HashDigits == 6

HashAlphabet == "abcdefghijklmnopqrstuvwxyz0123456789-._ \t\n\r\"'"

CharCode(c) ==
    IF \E i \in 1..Len(HashAlphabet) : Ch(HashAlphabet, i) = c
    THEN CHOOSE i \in 1..Len(HashAlphabet) : Ch(HashAlphabet, i) = c
    ELSE 0

\* the position-weighted sum of the character codes of s[a..b]
RECURSIVE CodeSum(_, _, _)
CodeSum(s, a, b) ==
    IF a > b THEN 0
    ELSE IF a = b THEN a * CharCode(Ch(s, a))
    ELSE LET m == (a + b) \div 2
         IN  CodeSum(s, a, m) + CodeSum(s, m + 1, b)

PyHash(seed, s) == (seed * 100003 + CodeSum(s, 1, Len(s))) % (10 ^ HashDigits)

DigitCh(d) == Ch("0123456789", d + 1)

\* the last n characters of str(h), h written with at least n digits
RECURSIVE LastDigits(_, _)
LastDigits(h, n) ==
    IF n = 0 THEN "" ELSE LastDigits(h \div 10, n - 1) \o DigitCh(h % 10)

(***************************************************************************)
(* NaturalLanguageParser.parse_command (src/mcp_client1.py).               *)
(***************************************************************************)
OrDefault(found, default) == IF found = NoMatch THEN default ELSE found

\* a final "return" that names no known action
FallbackUnknown(cmd) ==
    [action |-> "unknown", service_type |-> "terraform", user_input |-> cmd]

\* the final "return": also what a deletion verb without ec2/s3/rds reaches,
\* since the inner if/elif has no else and the outer chain is over
Fallback(cmd) ==
    [action |-> "generate_code", service_type |-> "terraform", user_input |-> cmd]

DeleteBranch(cmd) ==
    IF Contains(cmd, "ec2")
    THEN [action |-> "delete_resource", resource_type |-> "ec2",
          resource_identifier |-> OrDefault(FindInstanceId(cmd), "unknown")]
    ELSE IF Contains(cmd, "s3")
    THEN [action |-> "delete_resource", resource_type |-> "s3",
          resource_identifier |->
              OrDefault(FindAfterKeyword(cmd, "bucket", BucketClass), "unknown")]
    ELSE IF Contains(cmd, "rds")
    THEN [action |-> "delete_resource", resource_type |-> "rds",
          resource_identifier |->
              OrDefault(FindAfterKeyword(cmd, "database", NameClass), "unknown")]
    ELSE Fallback(cmd)

StateBranch(cmd) ==
    [action |-> "get_state",
     resource_type |-> IF Contains(cmd, "ec2") THEN "ec2"
                       ELSE IF Contains(cmd, "s3") THEN "s3"
                       ELSE IF Contains(cmd, "rds") THEN "rds"
                       ELSE "ec2"]

NormalizeEngine(engine) ==
    IF engine \in {"postgres", "postgresql"} THEN "postgres" ELSE engine

\* command = command.lower().strip()
Normalize(raw) == Strip(Lower(raw))

\* the patterns of the if/elif chain, in its order
IsCreateEc2(cmd) == SearchVerbMidTail(cmd, {"create", "launch", "start"}, "ec2", "instance")
IsCreateS3(cmd) == SearchVerbMidTail(cmd, {"create", "make"}, "s3", "bucket")
IsCreateRds(cmd) == SearchVerbMidTail(cmd, {"create", "setup"}, "rds", "database")
HasDeletionVerb(cmd) == SearchWord(cmd, {"delete", "destroy", "remove"})
IsCodeGeneration(cmd) == SearchVerbTail(cmd, {"generate", "create", "show"}, "code")
IsCustomDeployment(cmd) == SearchWord(cmd, {"deploy", "build", "setup"})
IsStateInspection(cmd) == SearchWord(cmd, {"state", "status", "info"})

FindBucket(cmd) == FindAfterKeyword(cmd, "bucket", BucketClass)
FindEngine(cmd) ==
    FindWord(cmd, {"mysql", "postgres", "postgresql", "mariadb", "oracle", "sqlserver"})

CreateEc2Branch(cmd) ==
    [action |-> "create_ec2",
     instance_type |-> OrDefault(FindInstanceType(cmd), "t2.micro"),
     region |-> OrDefault(FindRegion(cmd), "ap-south-1"),
     instance_name |-> OrDefault(FindName(cmd), "example")]

CreateS3Branch(cmd, seed) ==
    [action |-> "create_s3",
     bucket_name |-> OrDefault(FindBucket(cmd),
                         "test-bucket-" \o LastDigits(PyHash(seed, cmd), HashDigits)),
     region |-> OrDefault(FindRegion(cmd), "ap-south-1"),
     versioning |-> SearchWord(cmd, {"versioning"})]

CreateRdsBranch(cmd) ==
    [action |-> "create_rds",
     engine |-> NormalizeEngine(OrDefault(FindEngine(cmd), "mysql")),
     db_instance_class |-> OrDefault(FindDbClass(cmd), "db.t3.micro"),
     db_name |-> OrDefault(FindName(cmd), "testdb"),
     region |-> OrDefault(FindRegion(cmd), "ap-south-1")]

CodeGenerationBranch(cmd) ==
    [action |-> "generate_code",
     service_type |-> OrDefault(FindWord(cmd, {"terraform", "boto3", "python"}),
                                "terraform"),
     user_input |-> cmd]

CustomDeploymentBranch(cmd) == [action |-> "deploy_custom", user_input |-> cmd]

\* the elif branches that follow the deletion branch, and the final return
AfterDeletion(cmd) ==
    IF IsCodeGeneration(cmd) THEN CodeGenerationBranch(cmd)
    ELSE IF IsCustomDeployment(cmd) THEN CustomDeploymentBranch(cmd)
    ELSE IF IsStateInspection(cmd) THEN StateBranch(cmd)
    ELSE Fallback(cmd)

parse_command(raw, seed) ==
    LET cmd == Normalize(raw) IN
    IF IsCreateEc2(cmd) THEN CreateEc2Branch(cmd)
    ELSE IF IsCreateS3(cmd) THEN CreateS3Branch(cmd, seed)
    ELSE IF IsCreateRds(cmd) THEN CreateRdsBranch(cmd)
    ELSE IF HasDeletionVerb(cmd) THEN DeleteBranch(cmd)
    ELSE AfterDeletion(cmd)

(***************************************************************************)
(* The client: run_client.py joins its command-line words with single      *)
(* spaces and hands the text to parse_command.  A word is any argv entry:  *)
(* it may hold spaces itself, and it may be empty.                          *)
(***************************************************************************)
Vocabulary ==
    {"create ec2 instance", "make s3 bucket", "setup rds database",
     "Delete", "S3 bucket my-data", "show python code", "deploy", "status",
     "", "t2.micro named web-1 in ap-south-1"}

\* " ".join(args.command)
RECURSIVE Join(_)
Join(ws) ==
    IF Len(ws) = 0 THEN ""
    ELSE IF Len(ws) = 1 THEN ws[1]
    ELSE ws[1] \o " " \o Join(Tail(ws))

Inputs == {Join(ws) : ws \in UNION {[1..n -> Vocabulary] : n \in 1..MaxWords}}

\* PYTHONHASHSEED is drawn afresh by every interpreter process
Seeds == {0, 1}

NotRun == [pending |-> TRUE]
NoResult == [none |-> TRUE]

ParserIdle ==
    /\ command = ""
    /\ hashseed = 0
    /\ parsed = FALSE
    /\ intent = NotRun
    /\ earlier = NotRun

ParserInit ==
    /\ command \in Inputs
    /\ hashseed \in Seeds
    /\ parsed = FALSE
    /\ intent = NotRun
    /\ earlier = NotRun

\* main(): parsed_command = NaturalLanguageParser.parse_command(command_str)
ParseCommand ==
    /\ ~parsed
    /\ intent' = parse_command(command, hashseed)
    /\ parsed' = TRUE
    /\ UNCHANGED <<command, hashseed, earlier, composer_vars, batch_vars, server_vars>>

\* the program is run again on the same command line: a new interpreter
\* process, with a hash seed of its own
RunAgain ==
    /\ parsed
    /\ earlier = NotRun
    /\ earlier' = intent
    /\ intent' = NotRun
    /\ parsed' = FALSE
    /\ hashseed' \in Seeds
    /\ UNCHANGED <<command, composer_vars, batch_vars, server_vars>>

ParserNext == ParseCommand \/ RunAgain

(***************************************************************************)
(* The configuration composer (src/terraform_generator.py, src/prompts.py). *)
(* The generated texts are the f-strings of the source, piece by piece.     *)
(***************************************************************************)
\* str.find(old) + 1: the position of the leftmost occurrence, 0 for none
Find(s, old) ==
    LeftMost({i \in 1..(Len(s) - Len(old) + 1) : SubSeq(s, i, i + Len(old) - 1) = old})

\* a replace that stops after the first occurrence
ReplaceFirst(s, old, new) ==
    LET i == Find(s, old)
    IN  IF i = 0 THEN s
        ELSE SubSeq(s, 1, i - 1) \o new \o SubSeq(s, i + Len(old), Len(s))

\* str.replace(old, new) for a non-empty old: every occurrence, left to
\* right, without rescanning what was put in
RECURSIVE Replace(_, _, _)
Replace(s, old, new) ==
    LET i == Find(s, old)
    IN  IF i = 0 THEN s
        ELSE SubSeq(s, 1, i - 1) \o new
                 \o Replace(SubSeq(s, i + Len(old), Len(s)), old, new)

\* str.count(sub): the occurrences of sub, left to right, not overlapping
RECURSIVE Count(_, _)
Count(s, sub) ==
    LET i == Find(s, sub)
    IN  IF i = 0 THEN 0
        ELSE 1 + Count(SubSeq(s, i + Len(sub), Len(s)), sub)

\* str.upper() on one ASCII character
UpperCh(c) ==
    IF c \notin LowerLetters THEN c
    ELSE CHOOSE u \in UpperLetters : LowerCh(u) = c

\* str.upper()
RECURSIVE Upper(_)
Upper(s) ==
    IF Len(s) <= 1 THEN UpperCh(s)
    ELSE LET h == Len(s) \div 2
         IN  Upper(SubSeq(s, 1, h)) \o Upper(SubSeq(s, h + 1, Len(s)))

\* TerraformGenerator._get_engine_version: versions.get(engine.lower(), "8.0")
get_engine_version(engine) ==
    LET e == Lower(engine) IN
    CASE e = "mysql" -> "8.0"
      [] e = "postgres" -> "13.7"
      [] e = "mariadb" -> "10.6"
      [] e = "oracle-ee" -> "19.0.0.0.ru-2022-01.rur-2022-01.r1"
      [] e = "sqlserver-ex" -> "15.00.4153.1.v1"
      [] OTHER -> "8.0"

\* TerraformGenerator._get_db_port: ports.get(engine.lower(), 3306)
get_db_port(engine) ==
    LET e == Lower(engine) IN
    CASE e = "mysql" -> 3306
      [] e = "postgres" -> 5432
      [] e = "mariadb" -> 3306
      [] e = "oracle-ee" -> 1521
      [] e = "sqlserver-ex" -> 1433
      [] OTHER -> 3306

\* prompts.ec2_terraform_prompt
ec2_terraform_prompt(instance_type, ami, subnet_id, security_group_id, region) ==
    "\n" \o "resource \"aws_instance\" \"example\" {\n"
    \o "  ami           = \"" \o ami \o "\"\n" \o "  instance_type = \""
    \o instance_type \o "\"\n" \o "  subnet_id     = " \o subnet_id \o "\n"
    \o "  vpc_security_group_ids = [" \o security_group_id \o "]\n" \o "  \n"
    \o "  tags = {\n" \o "    Name = \"ExampleInstance\"\n"
    \o "    Environment = \"development\"\n" \o "    ManagedBy = \"terraform\"\n"
    \o "  }\n" \o "}\n" \o "\n" \o "provider \"aws\" {\n" \o "  region = \""
    \o region \o "\"\n" \o "}\n"

\* prompts.default_vpc_resources_prompt
default_vpc_resources_prompt(region) ==
    "\n" \o "resource \"aws_vpc\" \"default\" {\n"
    \o "  cidr_block           = \"10.0.0.0/16\"\n"
    \o "  enable_dns_hostnames = true\n" \o "  enable_dns_support   = true\n"
    \o "  \n" \o "  tags = {\n" \o "    Name = \"DefaultVPC\"\n"
    \o "    Environment = \"development\"\n" \o "    ManagedBy = \"terraform\"\n"
    \o "  }\n" \o "}\n" \o "\n" \o "resource \"aws_subnet\" \"default\" {\n"
    \o "  vpc_id                  = aws_vpc.default.id\n"
    \o "  cidr_block              = \"10.0.1.0/24\"\n"
    \o "  availability_zone       = \"" \o region \o "a\"\n"
    \o "  map_public_ip_on_launch = true\n" \o "  \n" \o "  tags = {\n"
    \o "    Name = \"DefaultSubnet\"\n" \o "    Environment = \"development\"\n"
    \o "    ManagedBy = \"terraform\"\n" \o "  }\n" \o "}\n" \o "\n"
    \o "resource \"aws_internet_gateway\" \"default\" {\n"
    \o "  vpc_id = aws_vpc.default.id\n" \o "  \n" \o "  tags = {\n"
    \o "    Name = \"DefaultIGW\"\n" \o "    Environment = \"development\"\n"
    \o "    ManagedBy = \"terraform\"\n" \o "  }\n" \o "}\n" \o "\n"
    \o "resource \"aws_route_table\" \"default\" {\n"
    \o "  vpc_id = aws_vpc.default.id\n" \o "  \n" \o "  route {\n"
    \o "    cidr_block = \"0.0.0.0/0\"\n"
    \o "    gateway_id = aws_internet_gateway.default.id\n" \o "  }\n" \o "  \n"
    \o "  tags = {\n" \o "    Name = \"DefaultRouteTable\"\n"
    \o "    Environment = \"development\"\n" \o "    ManagedBy = \"terraform\"\n"
    \o "  }\n" \o "}\n" \o "\n"
    \o "resource \"aws_route_table_association\" \"default\" {\n"
    \o "  subnet_id      = aws_subnet.default.id\n"
    \o "  route_table_id = aws_route_table.default.id\n" \o "}\n" \o "\n"
    \o "resource \"aws_security_group\" \"default\" {\n"
    \o "  name        = \"default_sg\"\n"
    \o "  description = \"Default security group\"\n"
    \o "  vpc_id      = aws_vpc.default.id\n" \o "  \n" \o "  ingress {\n"
    \o "    from_port   = 22\n" \o "    to_port     = 22\n"
    \o "    protocol    = \"tcp\"\n"
    \o "    cidr_blocks = [\"${var.allowed_ssh_cidrs}\"]\n"
    \o "    description = \"SSH access\"\n" \o "  }\n" \o "  \n" \o "  ingress {\n"
    \o "    from_port   = 80\n" \o "    to_port     = 80\n"
    \o "    protocol    = \"tcp\"\n" \o "    cidr_blocks = [\"0.0.0.0/0\"]\n"
    \o "    description = \"HTTP access\"\n" \o "  }\n" \o "  \n"
    \o "  ingress {\n" \o "    from_port   = 443\n" \o "    to_port     = 443\n"
    \o "    protocol    = \"tcp\"\n" \o "    cidr_blocks = [\"0.0.0.0/0\"]\n"
    \o "    description = \"HTTPS access\"\n" \o "  }\n" \o "  \n"
    \o "  egress {\n" \o "    from_port   = 0\n" \o "    to_port     = 0\n"
    \o "    protocol    = \"-1\"\n" \o "    cidr_blocks = [\"0.0.0.0/0\"]\n"
    \o "    description = \"All outbound traffic\"\n" \o "  }\n" \o "  \n"
    \o "  tags = {\n" \o "    Name = \"DefaultSG\"\n"
    \o "    Environment = \"development\"\n" \o "    ManagedBy = \"terraform\"\n"
    \o "  }\n" \o "}\n" \o "\n" \o "variable \"allowed_ssh_cidrs\" {\n"
    \o "  description = \"CIDR blocks allowed for SSH access\"\n"
    \o "  type        = string\n" \o "  default     = \"10.0.0.0/8\"\n" \o "}\n"
    \o "\n" \o "output \"vpc_id\" {\n" \o "  description = \"ID of the VPC\"\n"
    \o "  value       = aws_vpc.default.id\n" \o "}\n" \o "\n"
    \o "output \"subnet_id\" {\n" \o "  description = \"ID of the subnet\"\n"
    \o "  value       = aws_subnet.default.id\n" \o "}\n" \o "\n"
    \o "output \"security_group_id\" {\n"
    \o "  description = \"ID of the security group\"\n"
    \o "  value       = aws_security_group.default.id\n" \o "}\n"

\* tf_content of generate_s3_tf
s3_tf_content(bucket_name, region, versioning) ==
    "\n" \o "provider \"aws\" {\n" \o "  region = \"" \o region \o "\"\n"
    \o "}\n" \o "\n" \o "resource \"aws_s3_bucket\" \""
    \o Replace(bucket_name, "-", "_") \o "\" {\n" \o "  bucket = \"" \o bucket_name
    \o "\"\n" \o "  \n" \o "  tags = {\n" \o "    Name = \"" \o bucket_name
    \o "\"\n" \o "    Environment = \"development\"\n"
    \o "    ManagedBy = \"terraform\"\n" \o "  }\n" \o "}\n" \o "\n"
    \o "resource \"aws_s3_bucket_versioning\" \"" \o Replace(bucket_name, "-", "_")
    \o "_versioning\" {\n" \o "  bucket = aws_s3_bucket."
    \o Replace(bucket_name, "-", "_") \o ".id\n"
    \o "  versioning_configuration {\n" \o "    status = \""
    \o (IF versioning THEN "Enabled" ELSE "Disabled") \o "\"\n" \o "  }\n" \o "}\n"
    \o "\n" \o "resource \"aws_s3_bucket_server_side_encryption_configuration\" \""
    \o Replace(bucket_name, "-", "_") \o "_encryption\" {\n"
    \o "  bucket = aws_s3_bucket." \o Replace(bucket_name, "-", "_") \o ".id\n"
    \o "\n" \o "  rule {\n" \o "    apply_server_side_encryption_by_default {\n"
    \o "      sse_algorithm = \"AES256\"\n" \o "    }\n" \o "  }\n" \o "}\n"
    \o "\n" \o "output \"bucket_name\" {\n"
    \o "  description = \"Name of the S3 bucket\"\n"
    \o "  value       = aws_s3_bucket." \o Replace(bucket_name, "-", "_")
    \o ".bucket\n" \o "}\n" \o "\n" \o "output \"bucket_arn\" {\n"
    \o "  description = \"ARN of the S3 bucket\"\n"
    \o "  value       = aws_s3_bucket." \o Replace(bucket_name, "-", "_")
    \o ".arn\n" \o "}\n"

\* tf_content of generate_rds_tf
rds_tf_content(db_instance_class, engine, db_name, region) ==
    "\n" \o "provider \"aws\" {\n" \o "  region = \"" \o region \o "\"\n"
    \o "}\n" \o "\n" \o "resource \"aws_db_instance\" \"" \o db_name \o "\" {\n"
    \o "  identifier     = \"" \o db_name \o "\"\n" \o "  engine         = \""
    \o engine \o "\"\n" \o "  engine_version = \"" \o get_engine_version(engine)
    \o "\"\n" \o "  instance_class = \"" \o db_instance_class \o "\"\n"
    \o "  allocated_storage = 20\n" \o "  storage_type = \"gp2\"\n" \o "  \n"
    \o "  db_name  = \"" \o db_name \o "\"\n" \o "  username = \"admin\"\n"
    \o "  password = \"changeme123!\"  # Should use AWS Secrets Manager in production\n"
    \o "  \n" \o "  vpc_security_group_ids = [aws_security_group.rds.id]\n"
    \o "  db_subnet_group_name   = aws_db_subnet_group.default.name\n" \o "  \n"
    \o "  backup_retention_period = 7\n"
    \o "  backup_window          = \"07:00-09:00\"\n"
    \o "  maintenance_window     = \"sun:09:00-sun:10:00\"\n" \o "  \n"
    \o "  skip_final_snapshot = true\n" \o "  deletion_protection = false\n"
    \o "  \n" \o "  tags = {\n" \o "    Name = \"" \o db_name \o "\"\n"
    \o "    Environment = \"development\"\n" \o "    ManagedBy = \"terraform\"\n"
    \o "  }\n" \o "}\n" \o "\n"
    \o "resource \"aws_db_subnet_group\" \"default\" {\n" \o "  name       = \""
    \o db_name \o "-subnet-group\"\n"
    \o "  subnet_ids = [aws_subnet.private_1.id, aws_subnet.private_2.id]\n"
    \o "  \n" \o "  tags = {\n" \o "    Name = \"" \o db_name
    \o "-subnet-group\"\n" \o "  }\n" \o "}\n" \o "\n"
    \o "resource \"aws_security_group\" \"rds\" {\n" \o "  name        = \""
    \o db_name \o "-rds-sg\"\n"
    \o "  description = \"Security group for RDS database\"\n"
    \o "  vpc_id      = aws_vpc.main.id\n" \o "  \n" \o "  ingress {\n"
    \o "    from_port   = " \o ToString(get_db_port(engine)) \o "\n"
    \o "    to_port     = " \o ToString(get_db_port(engine)) \o "\n"
    \o "    protocol    = \"tcp\"\n" \o "    cidr_blocks = [\"10.0.0.0/16\"]\n"
    \o "    description = \"" \o Upper(engine) \o " access\"\n" \o "  }\n"
    \o "  \n" \o "  tags = {\n" \o "    Name = \"" \o db_name \o "-rds-sg\"\n"
    \o "  }\n" \o "}\n" \o "\n" \o "# Basic VPC setup for RDS\n"
    \o "resource \"aws_vpc\" \"main\" {\n"
    \o "  cidr_block           = \"10.0.0.0/16\"\n"
    \o "  enable_dns_hostnames = true\n" \o "  enable_dns_support   = true\n"
    \o "  \n" \o "  tags = {\n" \o "    Name = \"" \o db_name \o "-vpc\"\n"
    \o "  }\n" \o "}\n" \o "\n" \o "resource \"aws_subnet\" \"private_1\" {\n"
    \o "  vpc_id            = aws_vpc.main.id\n"
    \o "  cidr_block        = \"10.0.1.0/24\"\n" \o "  availability_zone = \""
    \o region \o "a\"\n" \o "  \n" \o "  tags = {\n" \o "    Name = \"" \o db_name
    \o "-private-1\"\n" \o "  }\n" \o "}\n" \o "\n"
    \o "resource \"aws_subnet\" \"private_2\" {\n"
    \o "  vpc_id            = aws_vpc.main.id\n"
    \o "  cidr_block        = \"10.0.2.0/24\"\n" \o "  availability_zone = \""
    \o region \o "b\"\n" \o "  \n" \o "  tags = {\n" \o "    Name = \"" \o db_name
    \o "-private-2\"\n" \o "  }\n" \o "}\n" \o "\n"
    \o "output \"rds_endpoint\" {\n"
    \o "  description = \"RDS instance endpoint\"\n"
    \o "  value       = aws_db_instance." \o db_name \o ".endpoint\n" \o "}\n"
    \o "\n" \o "output \"rds_port\" {\n"
    \o "  description = \"RDS instance port\"\n"
    \o "  value       = aws_db_instance." \o db_name \o ".port\n" \o "}\n"

\* tfvars_content of generate_ec2_tf
tfvars_content(instance_type, ami, region) ==
    "# Terraform variables\n" \o "allowed_ssh_cidrs = \"10.0.0.0/8\"\n"
    \o "instance_type = \"" \o instance_type \o "\"\n" \o "ami_id = \"" \o ami
    \o "\"\n" \o "region = \"" \o region \o "\"\n"

\* prompts.generate_terraform_code: TERRAFORM_AWS_PROMPT.format(user_input=user_input)
generate_terraform_code(user_input) ==
    "\n"
    \o "You are a Terraform AWS specialist. Convert natural language into Terraform AWS provider configuration.\n"
    \o "\n" \o "Generate complete, production-ready Terraform code with:\n"
    \o "- Proper resource naming\n" \o "- Required variables\n"
    \o "- Output values\n" \o "- Best practices\n" \o "\n" \o "User request:\n"
    \o "\"" \o user_input \o "\"\n"

\* prompt_templates.BASE_AWS_PROMPT with its {user_input} field filled in
\* (the dash of its second line, U+2014, is written as two hyphens)
BASE_AWS_PROMPT(user_input) ==
    "\n"
    \o "You are an AWS infrastructure assistant. Convert natural language into boto3-compatible Python code.\n"
    \o "Only generate code for boto3 -- no explanations or text.\n" \o "\n"
    \o "User request:\n" \o "\"" \o user_input \o "\"\n"

\* what EC2_PROMPT ... IAM_PROMPT add to BASE_AWS_PROMPT; prompt_mapping.get
\* falls back on EC2_PROMPT
ServiceExamples(service_type) ==
    CASE service_type = "s3" ->
            "\n" \o "Examples:\n"
            \o "- \"Create a public S3 bucket called test-bucket\" -> s3.create_bucket(...)\n"
            \o "- \"Upload file.txt to my-bucket\" -> s3.upload_file(...)\n"
            \o "- \"Set bucket policy for public read\" -> s3.put_bucket_policy(...)\n"
      [] service_type = "rds" ->
            "\n" \o "Examples:\n"
            \o "- \"Create MySQL RDS instance\" -> rds.create_db_instance(...)\n"
            \o "- \"Create RDS snapshot\" -> rds.create_db_snapshot(...)\n"
            \o "- \"Modify RDS instance class\" -> rds.modify_db_instance(...)\n"
      [] service_type = "lambda" ->
            "\n" \o "Examples:\n"
            \o "- \"Create Lambda function from zip file\" -> lambda_client.create_function(...)\n"
            \o "- \"Invoke Lambda function with payload\" -> lambda_client.invoke(...)\n"
            \o "- \"Update Lambda function code\" -> lambda_client.update_function_code(...)\n"
      [] service_type = "vpc" ->
            "\n" \o "Examples:\n"
            \o "- \"Create VPC with CIDR 10.0.0.0/16\" -> ec2.create_vpc(...)\n"
            \o "- \"Create subnet in VPC\" -> ec2.create_subnet(...)\n"
            \o "- \"Attach internet gateway\" -> ec2.attach_internet_gateway(...)\n"
      [] service_type = "iam" ->
            "\n" \o "Examples:\n" \o "- \"Create IAM user\" -> iam.create_user(...)\n"
            \o "- \"Attach policy to user\" -> iam.attach_user_policy(...)\n"
            \o "- \"Create IAM role\" -> iam.create_role(...)\n"
      [] OTHER ->
            "\n" \o "Examples:\n"
            \o "- \"Launch a t2.micro instance in us-east-1\" -> ec2.run_instances(...)\n"
            \o "- \"Stop instance i-1234567890abcdef0\" -> ec2.stop_instances(...)\n"
            \o "- \"Create a security group allowing SSH\" -> ec2.create_security_group(...)\n"

\* prompts.generate_boto3_code
generate_boto3_code(service_type, user_input) ==
    BASE_AWS_PROMPT(user_input) \o ServiceExamples(Lower(service_type))

\* the service generate_infrastructure_code picks from the user's text
BotoService(user_input) ==
    LET text == Lower(user_input)
    IN  IF Contains(text, "s3") THEN "s3"
        ELSE IF Contains(text, "rds") THEN "rds"
        ELSE IF Contains(text, "lambda") THEN "lambda"
        ELSE IF Contains(text, "vpc") THEN "vpc"
        ELSE IF Contains(text, "iam") THEN "iam"
        ELSE "ec2"

\* the two placeholders of the compute template and what replaces them
InstanceLabel(name) == "resource \"aws_instance\" \"" \o name \o "\""
NameTag(name) == "Name = \"" \o name \o "\""

\* ec2_content of generate_ec2_tf: the template, then the two str.replace
ec2_content(instance_type, ami, region, instance_name) ==
    Replace(
        Replace(ec2_terraform_prompt(instance_type, ami, "aws_subnet.default.id",
                                     "aws_security_group.default.id", region),
                InstanceLabel("example"), InstanceLabel(instance_name)),
        NameTag("ExampleInstance"), NameTag(instance_name))

\* tf_content of generate_ec2_tf
ec2_tf_content(instance_type, ami, region, instance_name) ==
    default_vpc_resources_prompt(region) \o "\n"
        \o ec2_content(instance_type, ami, region, instance_name)

\* the arguments the composer is called with: plain names, names with a
\* hyphen or a dot, and names that hold a piece of the template
ComposerNames ==
    {"example", "ExampleInstance", "web-1", "logs.2024", "testdb",
     "my-data-bucket", "Name = \"ExampleInstance\""}
ComposerCalls ==
    [fn : {"generate_ec2_tf"}, instance_type : {"t2.micro", "t3.small"},
     ami : {"ami-03f4878755434977f"}, region : {"ap-south-1", "us-east-1"},
     instance_name : ComposerNames]
    \cup [fn : {"generate_s3_tf"}, bucket_name : ComposerNames,
          region : {"ap-south-1", "us-east-1"}, versioning : BOOLEAN]
    \cup [fn : {"generate_rds_tf"}, db_instance_class : {"db.t3.micro"},
          engine : {"mysql", "postgres", "mariadb", "MariaDB", "oracle", "sqlserver",
                    "aurora"},
          db_name : ComposerNames, region : {"ap-south-1"}]
    \cup [fn : {"generate_custom_tf"}, user_input : ComposerNames]

ComposerIdle == composer_call = NotRun /\ composed = <<>> /\ removals = <<>>
ComposerInit == composer_call \in ComposerCalls /\ composed = <<>> /\ removals = <<>>

\* one call of a generate_*_tf method: composed is the text it writes to
\* main.tf
Compose(fn, text) ==
    /\ composed = <<>>
    /\ composer_call.fn = fn
    /\ composed' = <<text>>
    /\ UNCHANGED <<composer_call, removals, parser_vars, batch_vars, server_vars>>

generate_ec2_tf ==
    Compose("generate_ec2_tf",
            ec2_tf_content(composer_call.instance_type, composer_call.ami,
                           composer_call.region, composer_call.instance_name))
generate_s3_tf ==
    Compose("generate_s3_tf",
            s3_tf_content(composer_call.bucket_name, composer_call.region,
                          composer_call.versioning))
generate_rds_tf ==
    Compose("generate_rds_tf",
            rds_tf_content(composer_call.db_instance_class, composer_call.engine,
                           composer_call.db_name, composer_call.region))
generate_custom_tf ==
    Compose("generate_custom_tf", generate_terraform_code(composer_call.user_input))

ComposerNext ==
    \/ generate_ec2_tf
    \/ generate_s3_tf
    \/ generate_rds_tf
    \/ generate_custom_tf

(***************************************************************************)
(* The configuration mutator: removeResourceBlock(filePath, resourceKind,  *)
(* resourceName), a line scanner that counts braces.  The file is kept as  *)
(* its text; a line keeps its line terminator.                             *)
(***************************************************************************)
MaxRemovals == 2

\* the lines of the text, in order, each with its terminator (the text is
\* cut at the line end nearest its middle, and so on in both halves)
RECURSIVE SplitLines(_)
SplitLines(s) ==
    LET mid == (Len(s) + 1) \div 2
        after == LeftMost({i \in mid..(Len(s) - 1) : Ch(s, i) = "\n"})
        before == RightMost({i \in 1..(mid - 1) : Ch(s, i) = "\n"})
        cut == IF after # 0 THEN after ELSE before
    IN  IF s = "" THEN <<>>
        ELSE IF cut = 0 THEN <<s>>
        ELSE SplitLines(SubSeq(s, 1, cut)) \o SplitLines(SubSeq(s, cut + 1, Len(s)))

RECURSIVE JoinLines(_)
JoinLines(lines) ==
    IF lines = <<>> THEN ""
    ELSE IF Len(lines) = 1 THEN lines[1]
    ELSE LET h == Len(lines) \div 2
         IN  JoinLines(SubSeq(lines, 1, h)) \o JoinLines(SubSeq(lines, h + 1, Len(lines)))

\* the exact resource declaration for the given kind and name
Declaration(kind, name) == "resource \"" \o kind \o "\" \"" \o name \o "\""

\* a scanner that counts the opening delimiters only
OpeningCount(line) == Count(line, "{")

\* a line's opening delimiters minus its closing delimiters
DelimiterCount(line) == Count(line, "{") - Count(line, "}")

\* a scanner that starts every removed block at depth zero
SeedDepthZero(line) == 0

\* the depth counter is seeded from the declaration line's own delimiters
SeedDepth(line) == DelimiterCount(line)

IsBlank(line) == \A i \in 1..Len(line) : Ch(line, i) \in Whitespace
IsLoneCloser(line) == ~IsBlank(line) /\ Strip(line) = "}"

\* the scanner's step on one line, from the state it is in: whether the line
\* is kept, and the state after it
ScanLine(line, decl, state) ==
    IF ~state.skipping /\ Contains(line, decl)
    THEN [kept |-> <<>>, state |-> [skipping |-> TRUE, depth |-> SeedDepth(line)]]
    ELSE IF state.skipping
    THEN LET d == state.depth + DelimiterCount(line)
         IN  [kept |-> <<>>, state |-> [skipping |-> d > 0, depth |-> d]]
    ELSE [kept |-> <<line>>, state |-> state]

\* the deletion pass over lines a..b, one line after the other
RECURSIVE Scan(_, _, _, _, _)
Scan(lines, decl, a, b, state) ==
    IF a > b THEN [kept |-> <<>>, state |-> state]
    ELSE IF a = b THEN ScanLine(lines[a], decl, state)
    ELSE LET m == (a + b) \div 2
             first == Scan(lines, decl, a, m, state)
             rest == Scan(lines, decl, m + 1, b, first.state)
         IN  [kept |-> first.kept \o rest.kept, state |-> rest.state]
DeletionPass(lines, kind, name) ==
    Scan(lines, Declaration(kind, name), 1, Len(lines),
         [skipping |-> FALSE, depth |-> 0]).kept

\* a cleanup that takes every line for one that follows a boundary
AfterAnyLine(lines, i) == TRUE

\* a line that follows a boundary: the first line, or one after a blank line
AfterBoundary(lines, i) == i = 1 \/ IsBlank(lines[i - 1])

\* the cleanup pass over lines a..b: the lines that are neither blank nor a
\* lone closing delimiter right after a boundary
RECURSIVE Cleanup(_, _, _)
Cleanup(lines, a, b) ==
    IF a > b THEN <<>>
    ELSE IF a = b
    THEN IF IsBlank(lines[a]) \/ (IsLoneCloser(lines[a]) /\ AfterBoundary(lines, a))
         THEN <<>> ELSE <<lines[a]>>
    ELSE LET m == (a + b) \div 2
         IN  Cleanup(lines, a, m) \o Cleanup(lines, m + 1, b)
CleanupPass(lines) == Cleanup(lines, 1, Len(lines))

removeBlock(text, kind, name) ==
    JoinLines(CleanupPass(DeletionPass(SplitLines(text), kind, name)))

\* the configuration files the removal is tried on besides the composed
\* ones: well-formed ones, one with a blank line inside a block, one whose
\* block ends on a line that closes its parent too, and malformed ones
Fixtures ==
    {"resource \"aws_instance\" \"example\" {\n  ami = \"ami-1\"\n}\n",
     "\nresource \"aws_instance\" \"example\" {\n  tags = {\n    Name = \"a\"\n  }\n}\n\noutput \"id\" {\n  value = 1\n}\n",
     "resource \"aws_s3_bucket\" \"my_data_bucket\" {\n  tags = {\n    Name = \"a\"\n\n  }\n}\n",
     "locals {\nresource \"aws_instance\" \"example\" {\n  ami = \"ami-1\"\n} }\n",
     "module \"m\" {\n\nresource \"aws_db_instance\" \"testdb\" {\n  port = 1\n}\n}\n",
     "}\n}\noutput \"id\" {\n  value = 1\n}\n",
     "resource \"aws_instance\" \"example\" {}\nresource \"aws_db_instance\" \"testdb\" {\n  port = 1\n}\n"}
ResourceKinds == {"aws_instance", "aws_s3_bucket", "aws_db_instance"}
ResourceNames == {"example", "my_data_bucket", "testdb", "absent"}

\* the composer calls whose files the removal is tried on
MutatorCalls ==
    {c \in ComposerCalls :
        /\ c.fn # "generate_custom_tf" => c.region = "ap-south-1"
        /\ c.fn = "generate_ec2_tf" => c.instance_type = "t2.micro" /\ c.instance_name = "example"
        /\ c.fn = "generate_s3_tf" => ~c.versioning /\ c.bucket_name \in {"example", "my-data-bucket"}
        /\ c.fn = "generate_rds_tf" => c.engine = "mysql" /\ c.db_name = "testdb"
        /\ c.fn = "generate_custom_tf" => c.user_input = "example"}

\* removeResourceBlock: read the file, remove the block, overwrite the file
removeResourceBlock ==
    /\ composed # <<>>
    /\ Len(removals) < MaxRemovals
    /\ \E kind \in ResourceKinds, name \in ResourceNames :
          /\ composed' = <<removeBlock(composed[1], kind, name)>>
          /\ removals' = Append(removals, [kind |-> kind, name |-> name,
                                           before |-> composed[1]])
    /\ UNCHANGED <<composer_call, parser_vars, batch_vars, server_vars>>

MutatorNext == ComposerNext \/ removeResourceBlock

(***************************************************************************)
(* The server (src/mcp_fastapi_server.py).  Every handler is an            *)
(* "async def" that calls the blocking subprocess.run: it runs from its    *)
(* first line to its return without yielding the event loop, so one        *)
(* request is in progress at a time.  The handler is cut only where it     *)
(* waits for an external terraform process, whose exit status, output and  *)
(* duration are inputs.                                                     *)
(***************************************************************************)
KindDirs == {"terraform_ec2", "terraform_s3", "terraform_rds", "terraform_custom"}

CreateEndpoints == {"create_ec2", "create_s3", "create_rds", "deploy_custom"}

\* one directory shared by every generate_*_tf method
OutDirShared(endpoint) == "terraform_ec2"

\* the out_dir default of the generate_*_tf method each endpoint calls
OutDir(endpoint) ==
    CASE endpoint = "create_ec2" -> "terraform_ec2"
      [] endpoint = "create_s3" -> "terraform_s3"
      [] endpoint = "create_rds" -> "terraform_rds"
      [] endpoint = "deploy_custom" -> "terraform_custom"

\* os.path.join(self.base_dir, out_dir, "main.tf")
TfPath(dir) == "terraform/" \o dir \o "/main.tf"
\* os.path.join(full_out_dir, "terraform.tfvars")
TfvarsPath(dir) == "terraform/" \o dir \o "/terraform.tfvars"
\* the files the program itself writes
Paths == {TfPath(d) : d \in KindDirs} \cup {TfvarsPath("terraform_ec2")}

\* tf_dir_mapping.get(resource_type, "terraform_ec2")
tf_dir_mapping(resource_type) ==
    CASE resource_type = "ec2" -> "terraform_ec2"
      [] resource_type = "s3" -> "terraform_s3"
      [] resource_type = "rds" -> "terraform_rds"
      [] OTHER -> "terraform_ec2"

\* what a request may name; "lambda" stands for any type outside the mapping
ResourceTypes == {"ec2", "s3", "rds", "lambda"}
Identifiers == {"i-0abc", "my-data"}

\* the request bodies: the pydantic defaults, and a few other values
EC2Requests ==
    [instance_type : {"t2.micro"}, image_id : {"ami-03f4878755434977f"},
     region : {"ap-south-1"}, instance_name : {"example", "web-1"},
     allowed_ssh_cidrs : {"10.0.0.0/8", "0.0.0.0/0"}]
S3Requests ==
    [bucket_name : {"my-data", "logs.2024"}, region : {"ap-south-1"},
     versioning : {FALSE}]
RDSRequests ==
    [db_instance_class : {"db.t3.micro"}, engine : {"postgres"},
     db_name : {"testdb"}, region : {"ap-south-1"}]
CustomInfraRequests ==
    [user_input : {"a vpc", "two buckets"}, service_type : {"terraform"},
     region : {"ap-south-1"}]

\* the bodies of POST /generate_code: a service type the handler knows in two
\* spellings, and one it does not know
CodeRequests ==
    [user_input : {"a vpc", "an s3 bucket"},
     service_type : {"terraform", "Boto3", "kubernetes"}, region : {"ap-south-1"}]
\* datetime.utcnow().isoformat() at the time of the response
Timestamps == {"2024-05-01T10:00:00", "2024-05-01T10:00:01"}

\* what generate_*_tf writes to main.tf for each of these requests (the
\* texts depend on the request alone, so they are tabulated once)
MainTf ==
    [req \in EC2Requests |->
        ec2_tf_content(req.instance_type, req.image_id, req.region,
                       req.instance_name)]
    @@ [req \in S3Requests |->
        s3_tf_content(req.bucket_name, req.region, req.versioning)]
    @@ [req \in RDSRequests |->
        rds_tf_content(req.db_instance_class, req.engine, req.db_name, req.region)]
    @@ [req \in CustomInfraRequests |-> generate_terraform_code(req.user_input)]
\* what generate_ec2_tf writes to terraform.tfvars
Tfvars ==
    [req \in EC2Requests |->
        tfvars_content(req.instance_type, req.image_id, req.region)]

\* what an external process may do: exit with a status and two texts ...
ExitCodes == {0, 1}
Exits(stage) ==
    [returncode : ExitCodes,
     stdout : {stage \o " stdout"},
     stderr : {"", stage \o " stderr"}]
ShowOutcomes ==
    [returncode : ExitCodes,
     stdout : {"", "{\"values\": {}}", "No state."},
     stderr : {"", "show stderr"}]
\* ... or never be started: str(e) of the exception Popen raises
LaunchErrors == {"[Errno 2] No such file or directory: 'terraform'",
                 "[Errno 13] Permission denied: 'terraform'"}

\* Optional[str]: None is <<>>, a text s is <<s>>
None == <<>>
Some(x) == <<x>>
Get(d, key) == IF key \in DOMAIN d THEN Some(d[key]) ELSE None

\* a handler that would not look for the directory
os_path_exists_always(dir) == TRUE

\* os.path.exists(tf_dir)
os_path_exists(dir) == dir \in tf_dirs

\* with open(path, "a") as f: f.write(content)
WriteFileAppend(fs, path, content) ==
    [fs EXCEPT ![path] = Some((IF fs[path] = None THEN "" ELSE fs[path][1]) \o content)]

\* with open(path, "w") as f: f.write(content)
WriteFile(fs, path, content) == [fs EXCEPT ![path] = Some(content)]
\* with open(path, "r") as f: f.read()
ReadFile(fs, path) == fs[path][1]

Proc(stage, cwd) == [stage |-> stage, cwd |-> cwd, status |-> "running"]
\* the process the handler waits for has ended: it exited, or subprocess.run
\* killed and reaped it when the timeout expired
Ended(how) == [procs EXCEPT ![Len(procs)].status = how]

\* the pydantic model keeps its declared fields and drops every other key
TerraformResponse(terraform_file, result) ==
    [terraform_file |-> terraform_file,
     terraform_init_stdout |-> Get(result, "terraform_init_stdout"),
     terraform_init_stderr |-> Get(result, "terraform_init_stderr"),
     terraform_apply_stdout |-> Get(result, "terraform_apply_stdout"),
     terraform_apply_stderr |-> Get(result, "terraform_apply_stderr"),
     error |-> Get(result, "error")]

Ok(body) == [status |-> 200, body |-> body]
\* raise HTTPException(status_code=500, detail=str(e))
HttpError(status, detail) == [status |-> status, detail |-> detail]

\* str(e) of an HTTPException: its status code and its detail
HttpExceptionText(status, detail) == ToString(status) \o ": " \o detail

\* except Exception as e: raise HTTPException(status_code=500, detail=str(e)),
\* around a raise HTTPException(status_code=status, detail=detail) in the try
\* block
Reraise(status, detail) == HttpError(500, HttpExceptionText(status, detail))

\* the dictionary run_terraform_commands returns when no call raised
StageResults(init, plan, apply) ==
    [terraform_init_stdout |-> init.stdout,
     terraform_init_stderr |-> init.stderr,
     terraform_plan_stdout |-> plan.stdout,
     terraform_plan_stderr |-> plan.stderr,
     terraform_apply_stdout |-> apply.stdout,
     terraform_apply_stderr |-> apply.stderr,
     init_success |-> (init.returncode = 0),
     plan_success |-> (plan.returncode = 0),
     apply_success |-> (apply.returncode = 0)]

\* except subprocess.TimeoutExpired
TimedOutResult == [error |-> "Terraform command timed out"]
\* a handler that would keep a stage flag beside the exception text
ExceptionResultWithStage(e) == [error |-> e, init_success |-> FALSE]
\* except Exception as e
ExceptionResult(e) == [error |-> e]

\* run_terraform_commands returns result to the create handler, which wraps
\* it into the response
CreateReturns(endpoint, result) ==
    /\ outcome' = result
    /\ response' = Ok(TerraformResponse(TfPath(OutDir(endpoint)), result))
    /\ pc' = "idle"

ServerInit ==
    \* started through bootstrap.py (setup_directories) or directly
    /\ tf_dirs \in {{}, KindDirs}
    /\ files = [p \in Paths |-> None]
    /\ overwritten = FALSE
    /\ request = NoResult
    /\ pc = "idle"
    /\ procs = <<>>
    /\ init_result = NoResult
    /\ plan_result = NoResult
    /\ apply_result = NoResult
    /\ show_result = NoResult
    /\ outcome = NoResult
    /\ response = NoResult

\* a create handler up to its first wait: generate_*_tf has made the
\* directory and written the files (fs is the file system it leaves), then
\* run_terraform_commands launches terraform init
StartCreate(endpoint, req, fs) ==
    /\ pc = "idle"
    /\ request' = [endpoint |-> endpoint, req |-> req]
    /\ tf_dirs' = tf_dirs \cup {OutDir(endpoint)}
    /\ files' = fs
    /\ overwritten' = (files[TfPath(OutDir(endpoint))] # None)
    /\ init_result' = NoResult
    /\ plan_result' = NoResult
    /\ apply_result' = NoResult
    /\ show_result' = NoResult
    /\ \/ /\ procs' = <<Proc("init", OutDir(endpoint))>>
          /\ pc' = "init"
          /\ outcome' = NoResult
          /\ response' = NoResult
       \/ \E e \in LaunchErrors :
          /\ procs' = <<>>
          /\ CreateReturns(endpoint, ExceptionResult(e))
    /\ UNCHANGED client_vars

\* the "allowed_ssh_cidrs" line of the variables file, as generate_ec2_tf
\* writes it and as create_ec2 rewrites it
CidrLine(cidr) == "allowed_ssh_cidrs = \"" \o cidr \o "\""

\* a handler that writes the variables file back as it read it
OverrideCidrSkipped(content, cidr) == content

\* content.replace('allowed_ssh_cidrs = "10.0.0.0/8"', f'allowed_ssh_cidrs = "{req.allowed_ssh_cidrs}"')
OverrideCidr(content, cidr) ==
    Replace(content, CidrLine("10.0.0.0/8"), CidrLine(cidr))

\* create_ec2: generate_ec2_tf writes main.tf and terraform.tfvars, then the
\* handler reads terraform.tfvars back and replaces the CIDR line
create_ec2 ==
    \E req \in EC2Requests :
        LET dir == OutDir("create_ec2")
            written == WriteFile(WriteFile(files, TfPath(dir), MainTf[req]),
                                 TfvarsPath(dir), Tfvars[req])
            content == OverrideCidr(ReadFile(written, TfvarsPath(dir)),
                                    req.allowed_ssh_cidrs)
        IN  StartCreate("create_ec2", req,
                        WriteFile(written, TfvarsPath(dir), content))

create_s3 ==
    \E req \in S3Requests :
        StartCreate("create_s3", req,
                    WriteFile(files, TfPath(OutDir("create_s3")), MainTf[req]))

create_rds ==
    \E req \in RDSRequests :
        StartCreate("create_rds", req,
                    WriteFile(files, TfPath(OutDir("create_rds")), MainTf[req]))

deploy_custom_infrastructure ==
    \E req \in CustomInfraRequests :
        StartCreate("deploy_custom", req,
                    WriteFile(files, TfPath(OutDir("deploy_custom")), MainTf[req]))

\* terraform init exited: init_result is bound, terraform plan is launched
InitExits ==
    /\ pc = "init"
    /\ \E r \in Exits("init") :
       /\ init_result' = r
       /\ \/ /\ procs' = Append(Ended("exited"), Proc("plan", OutDir(request.endpoint)))
             /\ pc' = "plan"
             /\ UNCHANGED <<outcome, response>>
          \/ \E e \in LaunchErrors :
             /\ procs' = Ended("exited")
             /\ CreateReturns(request.endpoint, ExceptionResult(e))
    /\ UNCHANGED <<client_vars, fs_vars, show_result, request,
                   plan_result, apply_result>>

\* terraform plan exited: plan_result is bound, terraform apply is launched
PlanExits ==
    /\ pc = "plan"
    /\ \E r \in Exits("plan") :
       /\ plan_result' = r
       /\ \/ /\ procs' = Append(Ended("exited"), Proc("apply", OutDir(request.endpoint)))
             /\ pc' = "apply"
             /\ UNCHANGED <<outcome, response>>
          \/ \E e \in LaunchErrors :
             /\ procs' = Ended("exited")
             /\ CreateReturns(request.endpoint, ExceptionResult(e))
    /\ UNCHANGED <<client_vars, fs_vars, show_result, request,
                   init_result, apply_result>>

\* terraform apply exited: the dictionary of all three stages is returned
ApplyExits ==
    /\ pc = "apply"
    /\ \E r \in Exits("apply") :
       /\ apply_result' = r
       /\ procs' = Ended("exited")
       /\ CreateReturns(request.endpoint, StageResults(init_result, plan_result, r))
    /\ UNCHANGED <<client_vars, fs_vars, show_result, request,
                   init_result, plan_result>>

\* the stage in progress ran into its timeout: subprocess.run kills the
\* child, waits for it and raises TimeoutExpired, which leaves the try block
CreateTimeoutExpired ==
    /\ pc \in {"init", "plan", "apply"}
    /\ procs' = Ended("killed")
    /\ CreateReturns(request.endpoint, TimedOutResult)
    /\ UNCHANGED <<client_vars, fs_vars, show_result, request, init_result,
                   plan_result, apply_result>>

\* str(e) of the TimeoutExpired that subprocess.run raises
TimeoutText(cmdline, seconds) ==
    "Command '" \o cmdline \o "' timed out after " \o seconds \o " seconds"

\* a handler that looks for the directory of what the identifier names
DestroyDirOfIdentifier(req) ==
    IF req.resource_identifier = "my-data" THEN "terraform_s3"
    ELSE tf_dir_mapping(req.resource_type)

\* tf_dir of delete_resource: os.path.join("terraform", tf_dir_mapping.get(req.resource_type, "terraform_ec2"))
DestroyDir(req) == tf_dir_mapping(req.resource_type)

\* delete_resource up to its wait for terraform destroy.  The HTTPException
\* for a missing directory is raised inside the try block, whose
\* "except Exception" turns it into a 500 that carries str(e).
delete_resource ==
    /\ pc = "idle"
    /\ \E rt \in ResourceTypes, id \in Identifiers :
       /\ request' = [endpoint |-> "delete_resource", resource_type |-> rt,
                      resource_identifier |-> id]
       /\ IF ~os_path_exists(DestroyDir(request'))
          THEN /\ procs' = <<>>
               /\ pc' = "idle"
               /\ response' = Reraise(404, "No Terraform configuration found for " \o rt)
          ELSE \/ /\ procs' = <<Proc("destroy", DestroyDir(request'))>>
                  /\ pc' = "destroy"
                  /\ response' = NoResult
               \/ \E e \in LaunchErrors :
                  /\ procs' = <<>>
                  /\ pc' = "idle"
                  /\ response' = HttpError(500, e)
    /\ init_result' = NoResult
    /\ plan_result' = NoResult
    /\ apply_result' = NoResult
    /\ outcome' = NoResult
    /\ show_result' = NoResult
    /\ UNCHANGED <<client_vars, fs_vars>>

\* the text generate_infrastructure_code generates for each request it can
\* serve
GeneratedCode ==
    [req \in {r \in CodeRequests : Lower(r.service_type) \in {"terraform", "boto3", "python"}} |->
        IF Lower(req.service_type) = "terraform"
        THEN generate_terraform_code(req.user_input)
        ELSE generate_boto3_code(BotoService(req.user_input), req.user_input)]

\* POST /generate_code: no file is written and no process is run
generate_infrastructure_code ==
    /\ pc = "idle"
    /\ \E req \in CodeRequests :
       /\ request' = [endpoint |-> "generate_code", req |-> req]
       /\ IF req \in DOMAIN GeneratedCode
          THEN \E now \in Timestamps :
                  response' = Ok([generated_code |-> GeneratedCode[req],
                                  service_type |-> req.service_type,
                                  timestamp |-> now])
          ELSE response' = Reraise(400, "Unsupported service type")
    /\ procs' = <<>>
    /\ init_result' = NoResult
    /\ plan_result' = NoResult
    /\ apply_result' = NoResult
    /\ outcome' = NoResult
    /\ show_result' = NoResult
    /\ UNCHANGED <<pc, client_vars, fs_vars>>

\* terraform destroy exited: its texts and status are returned as data
DestroyExits ==
    /\ pc = "destroy"
    /\ \E r \in Exits("destroy") :
       response' = Ok([resource_type |-> request.resource_type,
                       resource_identifier |-> request.resource_identifier,
                       terraform_destroy_stdout |-> r.stdout,
                       terraform_destroy_stderr |-> r.stderr,
                       success |-> (r.returncode = 0)])
    /\ procs' = Ended("exited")
    /\ pc' = "idle"
    /\ UNCHANGED <<client_vars, fs_vars, show_result, request, init_result,
                   plan_result, apply_result, outcome>>

\* terraform destroy ran into its timeout: TimeoutExpired reaches
\* "except Exception"
DestroyTimeoutExpired ==
    /\ pc = "destroy"
    /\ procs' = Ended("killed")
    /\ response' = HttpError(500,
            TimeoutText("['terraform', 'destroy', '-auto-approve']", "600"))
    /\ pc' = "idle"
    /\ UNCHANGED <<client_vars, fs_vars, show_result, request, init_result,
                   plan_result, apply_result, outcome>>

\* get_terraform_state up to its wait for terraform show
get_terraform_state ==
    /\ pc = "idle"
    /\ \E rt \in ResourceTypes :
       /\ request' = [endpoint |-> "terraform_state", resource_type |-> rt]
       /\ IF ~os_path_exists(tf_dir_mapping(rt))
          THEN /\ procs' = <<>>
               /\ pc' = "idle"
               /\ response' = Ok([error |-> "No Terraform configuration found for " \o rt])
          ELSE \/ /\ procs' = <<Proc("show", tf_dir_mapping(rt))>>
                  /\ pc' = "show"
                  /\ response' = NoResult
               \/ \E e \in LaunchErrors :
                  /\ procs' = <<>>
                  /\ pc' = "idle"
                  /\ response' = HttpError(500, e)
    /\ init_result' = NoResult
    /\ plan_result' = NoResult
    /\ apply_result' = NoResult
    /\ outcome' = NoResult
    /\ show_result' = NoResult
    /\ UNCHANGED <<client_vars, fs_vars>>

\* a json.loads that would fail on every text
NoJsonTexts == {}

\* json.loads succeeds on the JSON texts among the outputs of terraform show
JsonTexts == {"{\"values\": {}}"}
\* json.loads(text): the dictionary the text denotes
json_loads(text) == CASE text = "{\"values\": {}}" -> [values |-> <<>>]

\* terraform show exited
ShowExits ==
    /\ pc = "show"
    /\ \E r \in ShowOutcomes :
       /\ show_result' = r
       /\ response' =
           IF r.returncode = 0
           THEN IF r.stdout \in JsonTexts
                THEN Ok([resource_type |-> request.resource_type,
                         state |-> json_loads(r.stdout)])
                ELSE Ok([resource_type |-> request.resource_type,
                         raw_output |-> r.stdout])
           ELSE Ok([error |-> "Failed to retrieve Terraform state",
                    stderr |-> r.stderr])
    /\ procs' = Ended("exited")
    /\ pc' = "idle"
    /\ UNCHANGED <<client_vars, fs_vars, request, init_result, plan_result,
                   apply_result, outcome>>

\* terraform show ran into its timeout
ShowTimeoutExpired ==
    /\ pc = "show"
    /\ procs' = Ended("killed")
    /\ response' = HttpError(500,
            TimeoutText("['terraform', 'show', '-json']", "60"))
    /\ pc' = "idle"
    /\ UNCHANGED <<client_vars, fs_vars, show_result, request, init_result,
                   plan_result, apply_result, outcome>>

ServerNext ==
    \/ create_ec2
    \/ create_s3
    \/ create_rds
    \/ deploy_custom_infrastructure
    \/ generate_infrastructure_code
    \/ InitExits
    \/ PlanExits
    \/ ApplyExits
    \/ CreateTimeoutExpired
    \/ delete_resource
    \/ DestroyExits
    \/ DestroyTimeoutExpired
    \/ get_terraform_state
    \/ ShowExits
    \/ ShowTimeoutExpired

(***************************************************************************)
(* batch_mode: the commands of a file, one after the other.  The server's  *)
(* answer to each request is one of the bodies its handlers return.        *)
(***************************************************************************)
MaxCommands == 3

\* the lines a commands file is made of
BatchLines ==
    {"create ec2 instance\n", "show python code\n", "status of s3\n",
     "# create rds database\n", "  \n"}
BatchFiles == UNION {[1..n -> BatchLines] : n \in 1..MaxCommands}

\* a process that exits with status 0 without error text, or with status 1
\* and error text
CleanExits(stage) == {r \in Exits(stage) : (r.returncode = 0) <=> (r.stderr = "")}

\* except requests.exceptions.RequestException as e: return {"error": str(e)},
\* after raise_for_status() on a 500 answer
RequestError == [error |-> Some("500 Server Error: Internal Server Error")]

\* response.json() of a create endpoint: the TerraformResponse fields
CreateReplies(endpoint) ==
    {TerraformResponse(TfPath(OutDir(endpoint)), StageResults(i, p, a)) :
        i \in CleanExits("init"), p \in CleanExits("plan"), a \in CleanExits("apply")}
    \cup {TerraformResponse(TfPath(OutDir(endpoint)), TimedOutResult)}

\* what execute_parsed_command may return for a parsed command
Replies(parsed_command) ==
    LET action == parsed_command.action
    IN  {RequestError} \cup
        CASE action = "create_ec2" -> CreateReplies("create_ec2")
          [] action = "create_s3" -> CreateReplies("create_s3")
          [] action = "create_rds" -> CreateReplies("create_rds")
          [] action = "deploy_custom" -> CreateReplies("deploy_custom")
          [] action = "generate_code" ->
                {[generated_code |-> "generated",
                  service_type |-> parsed_command.service_type,
                  timestamp |-> now] : now \in Timestamps}
          [] action = "delete_resource" ->
                {[resource_type |-> parsed_command.resource_type,
                  resource_identifier |-> parsed_command.resource_identifier,
                  terraform_destroy_stdout |-> r.stdout,
                  terraform_destroy_stderr |-> r.stderr,
                  success |-> (r.returncode = 0)] : r \in CleanExits("destroy")}
          [] action = "get_state" ->
                {[resource_type |-> parsed_command.resource_type,
                  state |-> "{\"values\": {}}"],
                 [error |-> Some("Failed to retrieve Terraform state"),
                  stderr |-> "show stderr"]}

\* the result reports an error: its error field holds a text
ErrorReported(result) == "error" \in DOMAIN result /\ result.error # None

\* if 'error' in result
ErrorInResult(result) == "error" \in DOMAIN result

StartsWith(s, prefix) ==
    Len(s) >= Len(prefix) /\ SubSeq(s, 1, Len(prefix)) = prefix

BatchIdle == batch_file = <<>> /\ batch_pos = 1 /\ executed = <<>>
BatchInit == batch_file \in BatchFiles /\ batch_pos = 1 /\ executed = <<>>

\* one turn of the loop on a line that is blank or a comment: continue
BatchSkip ==
    /\ batch_pos <= Len(batch_file)
    /\ LET cmd == Strip(batch_file[batch_pos])
       IN  cmd = "" \/ StartsWith(cmd, "#")
    /\ batch_pos' = batch_pos + 1
    /\ UNCHANGED <<batch_file, executed, parser_vars, composer_vars, server_vars>>

\* one turn of the loop on a command: parse it, execute it, and break when
\* the result has an "error" key
BatchExecute ==
    /\ batch_pos <= Len(batch_file)
    /\ LET cmd == Strip(batch_file[batch_pos])
       IN  /\ cmd # "" /\ ~StartsWith(cmd, "#")
           /\ \E result \in Replies(parse_command(cmd, hashseed)) :
                 /\ executed' = Append(executed, [line |-> batch_pos, command |-> cmd,
                                                  result |-> result])
                 /\ batch_pos' = IF ErrorInResult(result) THEN Len(batch_file) + 1
                                 ELSE batch_pos + 1
    /\ UNCHANGED <<batch_file, parser_vars, composer_vars, server_vars>>

BatchNext == BatchSkip \/ BatchExecute

(***************************************************************************)
(* Specifications.  Spec is the server handling requests; IntentSpec is    *)
(* the client resolving one command line, in one process run and again in  *)
(* a second one.                                                            *)
(***************************************************************************)
Init == ParserIdle /\ ComposerIdle /\ BatchIdle /\ ServerInit
Next == ServerNext
Spec == Init /\ [][Next]_vars

IntentInit == ParserInit /\ ComposerIdle /\ BatchIdle /\ ServerInit /\ tf_dirs = {}
IntentSpec == IntentInit /\ [][ParserNext]_vars

ComposerSpecInit == ParserIdle /\ ComposerInit /\ BatchIdle /\ ServerInit /\ tf_dirs = {}
ComposerSpec == ComposerSpecInit /\ [][ComposerNext]_vars

MutatorInit ==
    /\ ParserIdle /\ BatchIdle /\ ServerInit /\ tf_dirs = {}
    /\ removals = <<>>
    /\ \/ composer_call \in MutatorCalls /\ composed = <<>>
       \/ composer_call = NotRun /\ composed \in {<<f>> : f \in Fixtures}
MutatorSpec == MutatorInit /\ [][MutatorNext]_vars

BatchSpecInit == ParserIdle /\ ComposerIdle /\ BatchInit /\ ServerInit /\ tf_dirs = {}
BatchSpec == BatchSpecInit /\ [][BatchNext]_vars

(***************************************************************************)
(* Claims about the intent resolver, checked under IntentSpec.             *)
(***************************************************************************)
Actions == {"create_ec2", "create_s3", "create_rds", "delete_resource",
            "generate_code", "deploy_custom", "get_state"}

HasResourceKeyword(cmd) ==
    Contains(cmd, "ec2") \/ Contains(cmd, "s3") \/ Contains(cmd, "rds")

\* C1: intent resolution is deterministic on every run: two invocations of
\* parse_command on the same text, also in two separate process runs,
\* return the same intent, equal in action and in every parameter value.
C1_SameIntentOnEveryRun ==
    (parsed /\ earlier # NotRun) => intent = earlier

\* C2: intent resolution is total: for every input string parse_command
\* returns an intent, and its action is one of the seven actions.
C2_ParseIsTotal ==
    parsed => ("action" \in DOMAIN intent /\ intent.action \in Actions)

\* a text with a deletion verb and no resource keyword, which runs through
\* the deletion branch without returning there, has been resolved
C2_Witness ==
    /\ parsed
    /\ HasDeletionVerb(Normalize(command))
    /\ ~HasResourceKeyword(Normalize(command))
    /\ intent.action = "generate_code"

\* C3: a text with a deletion verb and none of ec2, s3, rds produces no
\* deletion intent and is matched against the later categories in priority
\* order (code generation, custom deployment, state inspection); the
\* fallback is returned only if none of those matches either.
C3_DeletionFallsThroughToLaterCategories ==
    LET cmd == Normalize(command) IN
    (/\ parsed
     /\ ~IsCreateEc2(cmd) /\ ~IsCreateS3(cmd) /\ ~IsCreateRds(cmd)
     /\ HasDeletionVerb(cmd) /\ ~HasResourceKeyword(cmd))
        => intent = AfterDeletion(cmd)

\* C4: when no category matches, parse_command returns the generate_code
\* fallback whose user_input is the input text exactly as the caller
\* supplied it: same characters, same letter case, same whitespace.
C4_FallbackCarriesOriginalText ==
    LET cmd == Normalize(command) IN
    (/\ parsed
     /\ ~IsCreateEc2(cmd) /\ ~IsCreateS3(cmd) /\ ~IsCreateRds(cmd)
     /\ ~HasDeletionVerb(cmd) /\ ~IsCodeGeneration(cmd)
     /\ ~IsCustomDeployment(cmd) /\ ~IsStateInspection(cmd))
        => (intent.action = "generate_code" /\ intent.user_input = command)

\* the action of the first category, in the fixed order, whose pattern
\* matches; deletion matches when a deletion verb and a resource keyword
\* are both there
FirstMatchingCategory(cmd) ==
    IF IsCreateEc2(cmd) THEN "create_ec2"
    ELSE IF IsCreateS3(cmd) THEN "create_s3"
    ELSE IF IsCreateRds(cmd) THEN "create_rds"
    ELSE IF HasDeletionVerb(cmd) /\ HasResourceKeyword(cmd) THEN "delete_resource"
    ELSE IF IsCodeGeneration(cmd) THEN "generate_code"
    ELSE IF IsCustomDeployment(cmd) THEN "deploy_custom"
    ELSE IF IsStateInspection(cmd) THEN "get_state"
    ELSE "generate_code"

\* C5: category matching is priority-ordered and first-match-wins,
\* independent of letter case: the action returned is that of the first
\* category, in the fixed order, whose pattern matches the text.
C5_FirstMatchingCategoryWins ==
    parsed => intent.action = FirstMatchingCategory(Normalize(command))

\* C6: in a creation category each parameter is extracted by its own
\* sub-pattern: a parameter whose sub-pattern matches takes the matched
\* token, one whose sub-pattern does not match takes its fixed default, the
\* same for every text and in every process run.
C6_MatchedTokenOrFixedDefault ==
    LET cmd == Normalize(command) IN
    parsed =>
      /\ intent.action = "create_ec2" =>
            /\ intent.instance_type = OrDefault(FindInstanceType(cmd), "t2.micro")
            /\ intent.region = OrDefault(FindRegion(cmd), "ap-south-1")
            /\ intent.instance_name = OrDefault(FindName(cmd), "example")
      /\ intent.action = "create_s3" =>
            /\ FindBucket(cmd) # NoMatch => intent.bucket_name = FindBucket(cmd)
            /\ FindBucket(cmd) = NoMatch =>
                  \A s \in Seeds : \A other \in {"create s3 bucket", cmd} :
                      parse_command(other, s).bucket_name = intent.bucket_name
            /\ intent.region = OrDefault(FindRegion(cmd), "ap-south-1")
      /\ intent.action = "create_rds" =>
            /\ intent.engine = OrDefault(FindEngine(cmd), "mysql")
            /\ intent.db_instance_class = OrDefault(FindDbClass(cmd), "db.t3.micro")
            /\ intent.region = OrDefault(FindRegion(cmd), "ap-south-1")

(***************************************************************************)
(* Claims about the lifecycle runner and the endpoints, checked under Spec. *)
(***************************************************************************)
\* the overall flag of the run_terraform_commands that logging_config.py
\* documents as the replacement: all([init, plan, apply]) of the stages'
\* 'success', each of which is returncode == 0
overall_success(init, plan, apply) ==
    (init.returncode = 0) /\ (plan.returncode = 0) /\ (apply.returncode = 0)

LifecycleStages == <<"init", "plan", "apply">>
Launched == [i \in 1..Len(procs) |-> procs[i].stage]
Running == {i \in 1..Len(procs) : procs[i].status = "running"}
CreateRun == request # NoResult /\ request.endpoint \in CreateEndpoints
Returned == pc = "idle" /\ response # NoResult
TimedOut == procs # <<>> /\ procs[Len(procs)].status = "killed"
LaunchFailed ==
    outcome # NoResult /\ "error" \in DOMAIN outcome /\ outcome.error \in LaunchErrors
\* the outcome holds the texts and the status that stage ended with
Carries(stage, r) ==
    /\ {"terraform_" \o stage \o "_stdout", "terraform_" \o stage \o "_stderr",
        stage \o "_success"} \subseteq DOMAIN outcome
    /\ outcome["terraform_" \o stage \o "_stdout"] = r.stdout
    /\ outcome["terraform_" \o stage \o "_stderr"] = r.stderr
    /\ outcome[stage \o "_success"] = (r.returncode = 0)

\* C7: in the create path the stages init, plan, apply are launched as
\* separate processes in exactly that order, each at most once and never
\* two at the same time, and a later stage is launched even if an earlier
\* one failed by a non-zero exit or by a timeout.
C7_AllStagesLaunchedInOrder ==
    CreateRun =>
      /\ Len(procs) <= 3 /\ Launched = SubSeq(LifecycleStages, 1, Len(procs))
      /\ Cardinality(Running) <= 1
      /\ (Returned /\ ~LaunchFailed) => Launched = LifecycleStages

\* C8: a stage whose process exceeds its timeout yields a result for that
\* stage with a failure status and a non-empty diagnostic that mentions the
\* timeout, and the process is no longer running when the outcome is
\* returned.
C8_TimedOutStageHasFailedResult ==
    (CreateRun /\ Returned /\ TimedOut) =>
      LET stage == procs[Len(procs)].stage
          diagnostic ==
              IF "terraform_" \o stage \o "_stderr" \in DOMAIN outcome
              THEN outcome["terraform_" \o stage \o "_stderr"]
              ELSE IF "error" \in DOMAIN outcome THEN outcome.error ELSE ""
      IN /\ stage \o "_success" \in DOMAIN outcome
         /\ outcome[stage \o "_success"] = FALSE
         /\ Contains(diagnostic, "timed out")
         /\ Running = {}

\* C9: a timeout or a non-zero exit of an external process, in the create,
\* delete or inspect path, is returned to the caller as data, not raised,
\* and the outcome still carries the stdout, stderr and status of every
\* stage that completed before it.
C9_FailureIsDataWithPartialProgress ==
    (Returned /\ procs # <<>> /\ ~LaunchFailed) =>
      /\ response.status = 200
      /\ CreateRun =>
            /\ init_result # NoResult => Carries("init", init_result)
            /\ plan_result # NoResult => Carries("plan", plan_result)

\* C10: the overall success reported for a lifecycle run is true if and
\* only if every gating stage exited with a success status (initialize and
\* apply in the create path, destroy in the delete path); a failing plan
\* stage alone does not make it false.
C10_OverallSuccessIffGatingStages ==
    /\ (CreateRun /\ Returned /\ apply_result # NoResult) =>
          (overall_success(init_result, plan_result, apply_result)
              <=> (init_result.returncode = 0 /\ apply_result.returncode = 0))
    /\ (Returned /\ procs # <<>> /\ procs[1].stage = "destroy"
            /\ procs[1].status = "exited") =>
          "success" \in DOMAIN response.body

\* C11: if launching a stage fails unexpectedly (executable missing,
\* permission denied), run_terraform_commands returns a single failed
\* outcome whose error field carries the exception text and which carries
\* no per-stage data, whichever stage the launch failed in.
C11_LaunchFailureIsSingleError ==
    (CreateRun /\ Returned /\ ~TimedOut /\ apply_result = NoResult) =>
        (DOMAIN outcome = {"error"} /\ outcome.error \in LaunchErrors)

\* launching apply failed after init and plan had completed
C11_Witness ==
    /\ CreateRun /\ Returned /\ ~TimedOut
    /\ Len(procs) = 2
    /\ init_result # NoResult /\ plan_result # NoResult
    /\ apply_result = NoResult
    /\ outcome.error = "[Errno 13] Permission denied: 'terraform'"

\* C12: the result of a create request that reaches the caller contains,
\* for every stage that ran (init, plan, apply), its raw stdout and stderr,
\* and the derived per-stage success flags, so the caller can tell from the
\* result whether apply succeeded.
C12_ResponseCarriesEveryStageAndItsFlag ==
    (CreateRun /\ Returned /\ apply_result # NoResult) =>
        LET body == response.body IN
        /\ {"terraform_init_stdout", "terraform_init_stderr",
            "terraform_plan_stdout", "terraform_plan_stderr",
            "terraform_apply_stdout", "terraform_apply_stderr",
            "init_success", "plan_success", "apply_success"} \subseteq DOMAIN body
        /\ body.terraform_init_stdout = Some(init_result.stdout)
        /\ body.terraform_apply_stderr = Some(apply_result.stderr)

\* C13: a long-running stage of one request does not stall unrelated
\* requests: while a stage of a request for one resource kind is running,
\* an inspection or creation request for another kind can start.
C13_OtherKindsNotStalled ==
    Running # {} =>
        /\ ENABLED get_terraform_state
        /\ procs[Len(procs)].cwd # "terraform_s3" => ENABLED create_s3
        /\ procs[Len(procs)].cwd # "terraform_ec2" => ENABLED create_ec2

\* the directory of each resource kind, as TerraformGenerator names it
OwnDirectory ==
    [create_ec2 |-> "terraform_ec2", create_s3 |-> "terraform_s3",
     create_rds |-> "terraform_rds", deploy_custom |-> "terraform_custom"]
\* path lies in os.path.join("terraform", dir)
InDirectory(path, dir) ==
    SubSeq(path, 1, Len("terraform/" \o dir \o "/")) = "terraform/" \o dir \o "/"
InspectRun == request # NoResult /\ request.endpoint = "terraform_state"

\* C14: requests for different resource kinds do not interfere: a create
\* request for one kind creates or writes files only inside that kind's
\* own directory and runs its stages only there, so every other
\* directory's files stay as its own requests left them.
C14_CreateStaysInItsOwnDirectory ==
    [][/\ (pc = "idle" /\ request' # NoResult /\ request'.endpoint \in CreateEndpoints) =>
            LET own == OwnDirectory[request'.endpoint] IN
            /\ \A p \in Paths : files'[p] # files[p] => InDirectory(p, own)
            /\ tf_dirs' \subseteq tf_dirs \cup {own}
            /\ \A i \in 1..Len(procs') : procs'[i].cwd = own
       /\ pc \in {"init", "plan", "apply"} =>
            /\ files' = files /\ tf_dirs' = tf_dirs
            /\ \A i \in 1..Len(procs') : procs'[i].cwd = OwnDirectory[request.endpoint]
      ]_vars

\* an object-store create is at its apply stage while the compute
\* directory holds the files of an earlier compute create
C14_Witness ==
    /\ CreateRun /\ request.endpoint = "create_s3" /\ pc = "apply"
    /\ files[TfPath("terraform_ec2")] # None
    /\ files[TfvarsPath("terraform_ec2")] # None
    /\ files[TfPath("terraform_s3")] # None

\* C15: when the directory for the requested resource kind does not exist,
\* state inspection returns a not-found result and no external process is
\* invoked for that request.
C15_MissingDirectoryIsNotFoundWithoutProcess ==
    (InspectRun /\ tf_dir_mapping(request.resource_type) \notin tf_dirs) =>
        /\ pc = "idle"
        /\ procs = <<>> /\ show_result = NoResult
        /\ response = Ok([error |-> "No Terraform configuration found for "
                                        \o request.resource_type])

\* the object-store directory is missing while the compute one exists
C15_Witness ==
    /\ InspectRun /\ request.resource_type = "s3"
    /\ "terraform_s3" \notin tf_dirs /\ "terraform_ec2" \in tf_dirs
    /\ response.status = 200 /\ "error" \in DOMAIN response.body
    /\ procs = <<>>

\* C16: state inspection reports every outcome of the show subcommand as a
\* returned result and never raises for it: exit status 0 with parseable
\* output gives the parsed state, exit status 0 with unparseable output
\* gives the raw text, a non-zero exit status gives the captured error text.
C16_ShowOutcomeIsAlwaysReturned ==
    (InspectRun /\ show_result # NoResult) =>
        LET body == response.body
            parseable == show_result.stdout = "{\"values\": {}}"
        IN  /\ response.status = 200
            /\ (show_result.returncode = 0 /\ parseable) =>
                   /\ DOMAIN body = {"resource_type", "state"}
                   /\ body.state = [values |-> <<>>]
            /\ (show_result.returncode = 0 /\ ~parseable) =>
                   /\ DOMAIN body = {"resource_type", "raw_output"}
                   /\ body.raw_output = show_result.stdout
            /\ show_result.returncode # 0 =>
                   /\ DOMAIN body = {"error", "stderr"}
                   /\ body.stderr = show_result.stderr

\* terraform show exited with status 0 and a text that is not JSON
C16_Witness ==
    /\ InspectRun /\ show_result # NoResult
    /\ show_result.returncode = 0 /\ show_result.stdout = "No state."
    /\ response.body.raw_output = "No state."

\* C17: in every reachable state, every configuration directory that
\* exists contains its main configuration file; in particular no stage
\* (init, apply, destroy, show) runs in a directory without one.
C17_EveryDirectoryHasItsMainFile ==
    /\ \A d \in tf_dirs : files[TfPath(d)] # None
    /\ \A i \in Running : files[TfPath(procs[i].cwd)] # None

\* C18: repeated creates overwrite and never merge: after any sequence of
\* create calls for the same kind, main.tf of that kind's directory is
\* exactly the text produced by the last call; the directory is created by
\* the first call if it was absent.
C18_LastCreateOverwrites ==
    CreateRun =>
        LET dir == OwnDirectory[request.endpoint] IN
        /\ dir \in tf_dirs
        /\ files[TfPath(dir)] = Some(MainTf[request.req])

\* a compute create for "web-1" found a main.tf of an earlier create
C18_Witness ==
    /\ CreateRun /\ request.endpoint = "create_ec2"
    /\ request.req.instance_name = "web-1"
    /\ overwritten
    /\ files[TfPath("terraform_ec2")] = Some(MainTf[request.req])

(***************************************************************************)
(* Claims about the configuration composer, checked under ComposerSpec.    *)
(***************************************************************************)
\* the label of the first declaration of the given resource type: the text
\* between the quotes after  resource "type"
ResourceLabel(text, type) ==
    LET opening == "resource \"" \o type \o "\" \""
        rest == SubSeq(text, Find(text, opening) + Len(opening), Len(text))
    IN  SubSeq(rest, 1, Find(rest, "\"") - 1)

IdentifierChars == LowerLetters \cup UpperLetters \cup Digits \cup {"_"}
Composed == composed # <<>>

\* C19: every resource label the composer embeds is sanitized: for every
\* caller-supplied instance name, bucket name or database name, each
\* character that is not an identifier character (a hyphen, a dot) is
\* replaced, so no emitted label contains such a character.
C19_EveryLabelIsSanitized ==
    (Composed /\ composer_call.fn # "generate_custom_tf") =>
        LET type == CASE composer_call.fn = "generate_ec2_tf" -> "aws_instance"
                      [] composer_call.fn = "generate_s3_tf" -> "aws_s3_bucket"
                      [] composer_call.fn = "generate_rds_tf" -> "aws_db_instance"
            label == ResourceLabel(composed[1], type)
        IN  \A i \in 1..Len(label) : Ch(label, i) \in IdentifierChars

\* C20: for every instance type, image, region and instance name, the text
\* written by generate_ec2_tf has the caller's name exactly once as the
\* label of the instance declaration and exactly once as the value of the
\* Name tag, and has neither placeholder (label "example", tag value
\* "ExampleInstance") unless the caller's name is that placeholder.
C20_NameSubstitutedOnceInBothPositions ==
    (Composed /\ composer_call.fn = "generate_ec2_tf") =>
        LET text == composed[1]
            name == composer_call.instance_name
        IN  /\ Count(text, InstanceLabel(name)) = 1
            /\ Count(text, NameTag(name)) = 1
            /\ name # "example" => Count(text, InstanceLabel("example")) = 0
            /\ name # "ExampleInstance" => Count(text, NameTag("ExampleInstance")) = 0

\* the name with each hyphen turned into an underscore, character by
\* character
RECURSIVE Underscored(_)
Underscored(s) ==
    IF Len(s) <= 1 THEN (IF s = "-" THEN "_" ELSE s)
    ELSE LET h == Len(s) \div 2
         IN  Underscored(SubSeq(s, 1, h)) \o Underscored(SubSeq(s, h + 1, Len(s)))

\* C21: the text written by generate_s3_tf uses one label, the bucket name
\* with each hyphen turned into an underscore: it is the label of the bucket
\* declaration, the stem of the versioning and the encryption labels, and
\* the label in every aws_s3_bucket.<label>. reference; the declared bucket
\* name value is the caller's name, unchanged.
C21_OneHyphenFreeLabelEverywhere ==
    (Composed /\ composer_call.fn = "generate_s3_tf") =>
        LET text == composed[1]
            name == composer_call.bucket_name
            label == Underscored(name)
        IN  /\ Count(text, "resource \"aws_s3_bucket\" \"" \o label \o "\" {\n") = 1
            /\ Count(text, "resource \"aws_s3_bucket_versioning\" \""
                               \o label \o "_versioning\" {\n") = 1
            /\ Count(text, "resource \"aws_s3_bucket_server_side_encryption_configuration\" \""
                               \o label \o "_encryption\" {\n") = 1
            /\ Count(text, "= aws_s3_bucket.") = 4
            /\ Count(text, "  bucket = aws_s3_bucket." \o label \o ".id\n") = 2
            /\ Count(text, "  value       = aws_s3_bucket." \o label \o ".bucket\n") = 1
            /\ Count(text, "  value       = aws_s3_bucket." \o label \o ".arn\n") = 1
            /\ Count(text, "  bucket = \"" \o name \o "\"\n") = 1
C21_Witness ==
    /\ Composed
    /\ composer_call.fn = "generate_s3_tf"
    /\ composer_call.bucket_name = "my-data-bucket"
    /\ Find(composed[1], "resource \"aws_s3_bucket\" \"my_data_bucket\" {\n") > 0
    /\ Find(composed[1], "  bucket = \"my-data-bucket\"\n") > 0

(***************************************************************************)
(* Claims about the request handlers, checked under Spec.                  *)
(***************************************************************************)
\* C22: in every compute create, from the launch of the initialize stage on,
\* main.tf holds the whole composed configuration and terraform.tfvars holds
\* the whole variables file with the request's allowed SSH CIDR in place of
\* the default one: no stage of the run finds the default CIDR there when
\* the request supplied another.
C22_FilesCompleteAndCidrOverriddenBeforeInit ==
    (request # NoResult /\ request.endpoint = "create_ec2" /\ procs # <<>>) =>
        LET req == request.req
            main_tf == files[TfPath("terraform_ec2")]
            tfvars == files[TfvarsPath("terraform_ec2")]
        IN  /\ procs[1].stage = "init" /\ procs[1].cwd = "terraform_ec2"
            /\ main_tf = Some(MainTf[req])
            /\ tfvars # None
            /\ Len(tfvars[1]) = Len(Tfvars[req])
                                    - Len("10.0.0.0/8") + Len(req.allowed_ssh_cidrs)
            /\ Count(tfvars[1], "allowed_ssh_cidrs = \"" \o req.allowed_ssh_cidrs \o "\"\n") = 1
            /\ Count(tfvars[1], "allowed_ssh_cidrs") = 1
            /\ req.allowed_ssh_cidrs # "10.0.0.0/8" => Count(tfvars[1], "10.0.0.0/8") = 0
C22_Witness ==
    /\ request # NoResult
    /\ request.endpoint = "create_ec2"
    /\ request.req.allowed_ssh_cidrs = "0.0.0.0/0"
    /\ pc = "init"
    /\ procs = <<Proc("init", "terraform_ec2")>>
    /\ Find(ReadFile(files, TfvarsPath("terraform_ec2")), "allowed_ssh_cidrs = \"0.0.0.0/0\"\n") > 0

(***************************************************************************)
(* Claims about the configuration mutator, checked under MutatorSpec.      *)
(***************************************************************************)
\* the file before the k-th removal and the file that removal wrote
FileBefore(k) == removals[k].before
FileAfter(k) == IF k < Len(removals) THEN removals[k + 1].before ELSE composed[1]
\* the k-th removal names a declaration that is in the file
Found(k) ==
    Contains(FileBefore(k), Declaration(removals[k].kind, removals[k].name))

Braces(text, c) == Cardinality({i \in 1..Len(text) : Ch(text, i) = c})
Balanced(text) == Braces(text, "{") = Braces(text, "}")
\* a brace of the line stands inside a string literal
BraceInString(line) ==
    \E i \in 1..Len(line) :
        /\ Ch(line, i) \in {"{", "}"}
        /\ Cardinality({k \in 1..(i - 1) : Ch(line, k) = "\""}) % 2 = 1
NoBraceInStrings(text) ==
    LET lines == SplitLines(text)
    IN  \A i \in 1..Len(lines) : ~BraceInString(lines[i])

KindOf(call) ==
    CASE call.fn = "generate_ec2_tf" -> "aws_instance"
      [] call.fn = "generate_s3_tf" -> "aws_s3_bucket"
      [] call.fn = "generate_rds_tf" -> "aws_db_instance"
LabelOf(call) ==
    CASE call.fn = "generate_ec2_tf" -> call.instance_name
      [] call.fn = "generate_s3_tf" -> Replace(call.bucket_name, "-", "_")
      [] call.fn = "generate_rds_tf" -> call.db_name
\* a configuration was composed and the resource it declares was removed
\* from it straight away
ComposeThenRemove ==
    /\ composer_call # NotRun
    /\ composer_call.fn \in {"generate_ec2_tf", "generate_s3_tf", "generate_rds_tf"}
    /\ Len(removals) = 1
    /\ removals[1].kind = KindOf(composer_call)
    /\ removals[1].name = LabelOf(composer_call)
\* the text has a fragment that refers to the resource
RefersTo(text, kind, name) == Find(text, kind \o "." \o name \o ".") > 0
\* no closing brace that closes nothing stands alone on the first or the
\* last line
NoDanglingCloserAtBoundaries(text) ==
    LET lines == SplitLines(text)
    IN  lines # <<>> =>
            /\ Strip(lines[1]) # "}"
            /\ Strip(lines[Len(lines)]) = "}" => Balanced(text)

Substantive(text) ==
    JoinLines(SelectSeq(SplitLines(text), LAMBDA l : Strip(l) \notin {"", "}"}))
BlankLines(text) ==
    LET lines == SplitLines(text)
    IN  Cardinality({i \in 1..Len(lines) : Strip(lines[i]) = ""})
\* the lone closing-brace lines, and those of them that are not stray: they
\* follow a line that is not blank
LoneClosers(text) ==
    LET lines == SplitLines(text)
    IN  {i \in 1..Len(lines) : Strip(lines[i]) = "}"}
SettledClosers(text) ==
    LET lines == SplitLines(text)
    IN  {i \in LoneClosers(text) : i > 1 /\ Strip(lines[i - 1]) # ""}
OnlyCleanup(before, after) ==
    /\ Substantive(after) = Substantive(before)
    /\ BlankLines(after) = 0
    /\ Cardinality(LoneClosers(after)) = Cardinality(SettledClosers(before))
\* the first line that is not blank is not a lone closing brace
HeadIsNotCloser(text) ==
    LET lines == SplitLines(text)
    IN  \A i \in 1..Len(lines) :
            Strip(lines[i]) = "}" => \E k \in 1..(i - 1) : Strip(lines[k]) # ""
\* the k-th removal and the next one are the same call, for a resource that
\* is not in the file
RepeatedNotFound(k) ==
    /\ removals[k + 1].kind = removals[k].kind
    /\ removals[k + 1].name = removals[k].name
    /\ ~Found(k)

\* C25 as stated: for every file and every resource name absent from it, the
\* second run of the removal writes what the first run wrote, byte for byte,
\* and the first run only drops blank lines and stray lone closing-brace
\* lines.
C25_NotFoundRemovalIsIdempotent ==
    \A k \in 1..(Len(removals) - 1) :
        RepeatedNotFound(k) =>
            /\ FileAfter(k + 1) = FileAfter(k)
            /\ OnlyCleanup(FileBefore(k), FileAfter(k))

\* C25: for every file whose first non-blank line is not a lone closing
\* brace and every resource name absent from it, the second run of the
\* removal writes what the first run wrote, byte for byte, and the first run
\* only drops the blank lines and the lone closing-brace lines that stand
\* first or right after a blank line.
C25_NotFoundRemovalIsIdempotentOnOpenedFiles ==
    \A k \in 1..(Len(removals) - 1) :
        (RepeatedNotFound(k) /\ HeadIsNotCloser(FileBefore(k))) =>
            /\ FileAfter(k + 1) = FileAfter(k)
            /\ OnlyCleanup(FileBefore(k), FileAfter(k))
C25_Witness ==
    /\ Len(removals) = 2
    /\ RepeatedNotFound(1)
    /\ HeadIsNotCloser(FileBefore(1))
    /\ BlankLines(FileBefore(1)) > 0
    /\ Cardinality(LoneClosers(FileBefore(1))) > Cardinality(SettledClosers(FileBefore(1)))
    /\ FileAfter(1) # FileBefore(1)
    /\ FileAfter(2) = FileAfter(1)

\* C26: an HTTP error a handler raises deliberately reaches the caller with
\* the status the handler chose: delete_resource answers 404, and runs no
\* process, when the configuration directory of the resource type does not
\* exist, and generate_code answers 400 for a service type other than
\* terraform, boto3 or python.
C26_DeliberateStatusReachesCaller ==
    (request # NoResult /\ Returned) =>
        /\ (/\ request.endpoint = "delete_resource"
            /\ ~os_path_exists(tf_dir_mapping(request.resource_type)))
               => response.status = 404 /\ procs = <<>>
        /\ (/\ request.endpoint = "generate_code"
            /\ Lower(request.req.service_type) \notin {"terraform", "boto3", "python"})
               => response.status = 400

(***************************************************************************)
(* Claims about batch_mode, checked under BatchSpec.                       *)
(***************************************************************************)
\* the lines of the file that are commands, in file order
RECURSIVE CommandLines(_)
CommandLines(n) ==
    IF n = 0 THEN <<>>
    ELSE LET cmd == Strip(batch_file[n])
         IN  IF cmd = "" \/ StartsWith(cmd, "#") THEN CommandLines(n - 1)
             ELSE Append(CommandLines(n - 1), n)
BatchEnded == batch_pos > Len(batch_file)

\* C27: batch_mode executes the non-blank, non-comment commands of the file
\* in file order and stops only after a command whose result reports an
\* error: after a command that succeeded (a create request whose stages all
\* exited with status 0) the next command is executed, and after a command
\* that failed no later command is executed.
C27_BatchStopsOnlyAfterAReportedError ==
    LET lines == CommandLines(Len(batch_file))
    IN  /\ Len(executed) <= Len(lines)
        /\ \A k \in 1..Len(executed) : executed[k].line = lines[k]
        /\ \A k \in 1..(Len(executed) - 1) : ~ErrorReported(executed[k].result)
        /\ (BatchEnded /\ Len(executed) < Len(lines))
               => ErrorReported(executed[Len(executed)].result)

(***************************************************************************)
(* Claims that join the resolver and the composer, under ComposerSpec.     *)
(***************************************************************************)
\* the engines parse_command can put in a create_rds intent
ResolverEngines ==
    {NormalizeEngine(e) :
        e \in {"mysql", "postgres", "postgresql", "mariadb", "oracle", "sqlserver"}}
\* each engine's own default port and version
OwnPort(engine) ==
    CASE engine = "mysql" -> "3306"
      [] engine = "postgres" -> "5432"
      [] engine = "mariadb" -> "3306"
      [] engine = "oracle" -> "1521"
      [] engine = "sqlserver" -> "1433"
OwnVersion(engine) ==
    CASE engine = "mysql" -> "8.0"
      [] engine = "postgres" -> "13.7"
      [] engine = "mariadb" -> "10.6"
      [] engine = "oracle" -> "19.0.0.0.ru-2022-01.rur-2022-01.r1"
      [] engine = "sqlserver" -> "15.00.4153.1.v1"

\* C29: for every engine the resolver can put in a create-database intent
\* (mysql, postgres, mariadb, oracle, sqlserver), the database configuration
\* the composer writes opens that engine's own default port (3306, 5432,
\* 3306, 1521, 1433) in its security group and declares that engine's own
\* default version.
C29_EveryResolvedEngineGetsItsOwnPortAndVersion ==
    (/\ Composed
     /\ composer_call.fn = "generate_rds_tf"
     /\ composer_call.engine \in ResolverEngines) =>
        LET text == composed[1]
            engine == composer_call.engine
        IN  /\ Count(text, "    from_port   = " \o OwnPort(engine) \o "\n") = 1
            /\ Count(text, "    to_port     = " \o OwnPort(engine) \o "\n") = 1
            /\ Count(text, "  engine_version = \"" \o OwnVersion(engine) \o "\"\n") = 1

(***************************************************************************)
(* Claims about deletion and state inspection, checked under Spec.         *)
(***************************************************************************)
\* C28: delete_resource and get_terraform_state act only on the directory
\* of the resource type they are given: every process they run has the
\* directory of that type as its working directory, and for a resource type
\* that is not exactly ec2, s3 or rds no destroy and no show is run in any
\* directory.
C28_OnlyTheNamedKindIsActedOn ==
    (/\ request # NoResult
     /\ request.endpoint \in {"delete_resource", "terraform_state"}) =>
        \A i \in 1..Len(procs) :
            /\ request.resource_type \in {"ec2", "s3", "rds"}
            /\ procs[i].cwd = "terraform_" \o request.resource_type

\* C30: what delete_resource does depends on the resource type only: from
\* the same files and directories, for every identifier, it finds the
\* directory of the type missing and answers so, or runs destroy in that
\* directory; it leaves every file and directory as it was; the identifier
\* is only echoed in the answer.
C30_DeleteDependsOnResourceTypeOnly ==
    [][/\ (pc = "idle" /\ request'.endpoint = "delete_resource") =>
            LET rt == request'.resource_type
                dir == tf_dir_mapping(rt)
            IN  /\ UNCHANGED fs_vars
                /\ IF dir \notin tf_dirs
                   THEN /\ procs' = <<>>
                        /\ response' = HttpError(500,
                               "404: No Terraform configuration found for " \o rt)
                   ELSE \/ procs' = <<Proc("destroy", dir)>> /\ response' = NoResult
                        \/ procs' = <<>> /\ response' \in {HttpError(500, e) : e \in LaunchErrors}
       /\ pc = "destroy" =>
            /\ UNCHANGED fs_vars
            /\ Len(procs') = 1
            /\ procs'[1].stage = "destroy"
            /\ procs'[1].cwd = tf_dir_mapping(request.resource_type)
            /\ response'.status = 200 =>
                  /\ response'.body.resource_type = request.resource_type
                  /\ response'.body.resource_identifier = request.resource_identifier
                  /\ response'.body.terraform_destroy_stdout = "destroy stdout"
      ]_vars
\* a bucket's directory is destroyed under an identifier that names an
\* instance
C30_Witness ==
    /\ request # NoResult
    /\ request.endpoint = "delete_resource"
    /\ request.resource_type = "s3"
    /\ request.resource_identifier = "i-0abc"
    /\ Len(procs) = 1
    /\ procs[1] = [stage |-> "destroy", cwd |-> "terraform_s3", status |-> "exited"]
    /\ Returned
    /\ response.status = 200
    /\ response.body.resource_identifier = "i-0abc"

====
